---------------------------- MODULE Spec2Model ----------------------------
(***************************************************************************)
(* The interactive vector canvas of EngiVibe (the Canvas component that    *)
(* follows the DetailModal component in src/components/DetailModal.tsx):   *)
(* the tool state machine, the user shapes with their snapshot undo/redo   *)
(* history, and the tape measure.                                          *)
(*                                                                         *)
(* Coordinates are fixed-point: one model unit is 0.001 world units, so    *)
(* the point (3,4) of the drawing is Pt(3000, 4000), the commit threshold  *)
(* 0.01 of the tape measure is 10, and toFixed(3) is rounding to a whole   *)
(* number of model units.                                                  *)
(*                                                                         *)
(* Every handler runs to completion on the state of the last render, as    *)
(* React's event handlers do: an action reads the unprimed variables (the  *)
(* closure's values) and queues the primed ones.                           *)
(***************************************************************************)
EXTENDS Integers, Sequences, FiniteSets, TLC

VARIABLES
    activeTool,     \* useState<ToolType>('select')
    cursorPos,      \* useState<{x,y} | null>(null): snapped world position of the pointer
    measureStart,   \* useState<{x,y} | null>(null)
    measurements,   \* useState<Measurement[]>([])
    userShapes,     \* useState<UserShape[]>([])
    currentShape,   \* useState<UserShape | null>(null): the shape under construction
    drawStep,       \* useState(0): step of the three-click arc gesture
    history,        \* useState<UserShape[][]>([]): the undo stack ("past")
    future,         \* useState<UserShape[][]>([]): the redo stack
    isPanning,      \* useState(false)
    nextId,         \* the clock read by Date.now() when a shape is created
    palette,        \* the tools the user picks from in this session
    buttonDown,     \* the pointer's primary button is held over the container
    clickCount,     \* presses without a pointer move in between (the browser's dblclick detection)
    lastEvent,      \* observation: the handler that ran last, and the branch it took
    runBase,        \* observation: the shape list before the first commit of the current run of commits
    runLen,         \* observation: the number of commits in the current run of commits
    abandoned,      \* observation: ids of the shapes that were under construction at a tool switch
    polyClicks,     \* observation: the points clicked with the polyline or arc tool for the shape under construction
    viewBox,        \* the viewBox prop: the bounds of the document, as its tokens
    viewState,      \* useState<{x,y,w,h} | null>(null): the viewport
    lastMousePos,   \* useState({x: 0, y: 0}): screen position of the last pan step
    dragStartRef,   \* useRef<{x,y} | null>(null): screen position of the press
    snapEnabled,    \* useState(true)
    selectedElement,\* useState<SelectedElement | null>(null)
    effectPending,  \* the reset effect is queued: the render with the new viewBox is committed
    clientPos,      \* the pointer's screen position (clientX, clientY of its events)
    worldPt,        \* observation: the world point of the last pointer move, before snapping
    docs,           \* the viewBox values the host delivers in this session
    viewSteps,      \* observation: the zooms and pans since the viewport last showed the whole document
    downView,       \* observation: the viewport without the pans since the press of the primary button
    svgContent,     \* the svgContent prop: the markup of the design held by the host, or null
    dom,            \* the elements of the live drawing, in document order
    selectedNode,   \* observation: the element of the live drawing that the selection was made on
    clickedNode,    \* observation: the element of the live drawing that the last hit test started from
    aimedNode,      \* observation: the element of the live drawing painted at the point of that click
    submitted,      \* observation: the attributes that the inspector submitted last
    detailInput,    \* useState(''): the text of the detail form
    requests,       \* the calls of onReqDetail made so far, by their argument
    keyListeners,   \* the keydown listeners attached to window, by the state their closure holds
    mounted,        \* the canvas is mounted
    status,         \* App: useState<AppStatus>(AppStatus.IDLE)
    pending,        \* App: the calls of generateEngineeringDesign that have not returned, by their number
    issued,         \* observation: the number of calls of performGeneration so far
    shownGen,       \* observation: the call whose response set currentDesign last, 0 before the first
    locationCard,   \* App: messages holds a message with a locationRequest
    detailModalOpen,\* App: useState(false)
    currentDetail,  \* App: useState<StructuralDetail | null>(null)
    isDetailLoading,\* App: useState(false)
    detailPending   \* App: the calls of generateElementDetail that have not returned, by their index in requests

\* the variables of the tools and the shape history
toolVars == <<activeTool, cursorPos, measureStart, measurements, userShapes, currentShape,
              drawStep, history, future, isPanning, nextId, palette, buttonDown, clickCount,
              lastEvent, runBase, runLen, abandoned, polyClicks>>

\* the variables of the viewport, the document and the selection
viewVars == <<viewBox, viewState, lastMousePos, dragStartRef, snapEnabled, selectedElement,
              effectPending, clientPos, worldPt, docs, viewSteps, downView>>

\* the variables of the tools, without the observation of the last handler
toolVarsButEvent ==
    <<activeTool, cursorPos, measureStart, measurements, userShapes, currentShape, drawStep,
      history, future, isPanning, nextId, palette, buttonDown, clickCount, runBase, runLen,
      abandoned, polyClicks>>

\* the variables of the host, the live drawing, the detail form and the window
hostVars == <<svgContent, dom, selectedNode, clickedNode, aimedNode, submitted, detailInput, requests, keyListeners, mounted>>

\* the variables of the App component
appVars == <<status, pending, issued, shownGen, locationCard, detailModalOpen, currentDetail,
             isDetailLoading, detailPending>>

vars == <<toolVars, viewVars, hostVars, appVars>>

---------------------------------------------------------------------------
(* Bounds of the model. *)

MaxIds == 2             \* shapes ever started (the clock's readings)
MaxMeasurements == 1    \* committed measurements held at once
LongMeasurements == 2   \* the same, in the session of the tape measure's list
MaxPolyPts == 4         \* vertices of a polyline under construction, in the polyline sessions
ShortPolyPts == 3       \* the same, in the sessions that mix the tools
MaxRequests == 2        \* calls of onReqDetail in a session
MaxViewSteps == 2       \* zooms and pans in a row, before the viewport is fitted again
MaxGenerations == 3     \* calls of performGeneration in a session

---------------------------------------------------------------------------
(* Values. *)

Pt(px, py) == [x |-> px, y |-> py]

\* null for a point and for a shape
NoPoint == [none |-> TRUE]
NoShape == [type |-> "none"]

ToolType == {"select", "measure", "detail", "draw_rect", "draw_circle", "draw_polyline", "draw_arc"}

DrawTools == {"draw_rect", "draw_circle", "draw_polyline", "draw_arc"}

\* activeTool.startsWith('draw_')
IsDrawTool(t) == t \in DrawTools

\* the colour every user shape is given
ShapeColor == "#10b981"

Abs(n) == IF n < 0 THEN -n ELSE n

\* n / 2 (the pointer positions of the model have even coordinates, so it is exact)
Half(n) == n \div 2

\* Math.hypot(dx, dy) squared: the comparisons of the code are made on it exactly
Hypot2(dx, dy) == dx * dx + dy * dy

RECURSIVE SqrtSearch(_, _, _)
\* the largest n in lo..hi with n*n <= v, by bisection
SqrtSearch(v, lo, hi) ==
    IF lo >= hi THEN lo
    ELSE LET mid == (lo + hi + 1) \div 2
         IN  IF mid * mid <= v THEN SqrtSearch(v, mid, hi) ELSE SqrtSearch(v, lo, mid - 1)

\* Math.hypot(dx, dy) to the resolution of the model (a whole number of units, nearest):
\* the double the code computes, rounded as toFixed(3) rounds it
Hypot(dx, dy) ==
    LET v == Hypot2(dx, dy)
        f == SqrtSearch(4 * v, 0, 2 * (Abs(dx) + Abs(dy)) + 1)  \* floor(2*sqrt(v))
    IN  (f + 1) \div 2

\* parseFloat(distance.toFixed(3))
ToFixed3(dx, dy) == Hypot(dx, dy)

\* the commit threshold of the tape measure, 0.01 world units
MeasureThreshold == 10

\* distance > 0.01
AboveThreshold(dx, dy) == Hypot2(dx, dy) > MeasureThreshold * MeasureThreshold

---------------------------------------------------------------------------
(* Numbers of the viewport.  The code computes on IEEE doubles; the model   *)
(* computes on a binary floating-point format of the same design and fewer  *)
(* bits: MantBits significant bits, round to nearest with ties to even, and *)
(* the model unit (0.001) as its smallest spacing.  NaN is the value that   *)
(* Number(token) gives for a token that is not a number.                    *)

MantBits == 12

NaN == 0 - 1073741824

RECURSIVE Pow2(_)
Pow2(k) == IF k = 0 THEN 1 ELSE 2 * Pow2(k - 1)

RECURSIVE Ulp(_)
\* the spacing of the representable numbers at magnitude a >= 0
Ulp(a) == IF a < Pow2(MantBits) THEN 1 ELSE 2 * Ulp(a \div 2)

\* the representable number nearest to a / b, for b > 0
RoundRatio(a, b) ==
    LET m   == Abs(a)
        d   == b * Ulp(m \div b)
        k   == m \div d
        rem == m - k * d
        up  == 2 * rem > d \/ (2 * rem = d /\ k % 2 = 1)
        r   == (IF up THEN k + 1 ELSE k) * Ulp(m \div b)
    IN  IF a < 0 THEN 0 - r ELSE r

\* a + b, a - b, a * b and a / (num / den) of the code
FAdd(a, b) == IF a = NaN \/ b = NaN THEN NaN ELSE RoundRatio(a + b, 1)
FSub(a, b) == IF a = NaN \/ b = NaN THEN NaN ELSE RoundRatio(a - b, 1)
FMul(a, b) == IF a = NaN \/ b = NaN THEN NaN ELSE RoundRatio(a * b, 1)
FDiv(a, num, den) ==
    IF a = NaN THEN NaN
    ELSE IF num < 0 THEN RoundRatio(0 - a * den, 0 - num)
    ELSE RoundRatio(a * den, num)

\* a > 0 of the code: false for NaN
Positive(a) == a # NaN /\ a > 0

\* the viewport {x, y, w, h}
View(vx, vy, vw, vh) == [x |-> vx, y |-> vy, w |-> vw, h |-> vh]

\* the document's bounds when the viewBox is malformed: [0, 0, 100, 100]
DefaultBounds == <<0, 0, 100000, 100000>>

\* baseViewBox: viewBox.trim().split(/\s+/).map(Number), or the default if
\* there are not four parts.  The viewBox is held as its sequence of tokens,
\* each the number it denotes, or NaN if it denotes none.
baseViewBox(tokens) == IF Len(tokens) = 4 THEN tokens ELSE DefaultBounds

\* a mutant: the viewport is put at the origin
FitView_Origin(base) == View(0, 0, base[3], base[4])

\* the viewport that shows the whole document: handleReset, and the reset effect
FitView(base) == View(base[1], base[2], base[3], base[4])

\* the zoom factors of the buttons, as fractions: 1.2 and 0.8
ZoomInFactor == <<6, 5>>
ZoomOutFactor == <<4, 5>>

\* a mutant: the zoom is about the corner of the viewport
handleZoom_Corner(v, factor) ==
    [v EXCEPT !.w = FDiv(v.w, factor[1], factor[2]), !.h = FDiv(v.h, factor[1], factor[2])]

\* handleZoom(factor)
handleZoom(v, factor) ==
    LET newW == FDiv(v.w, factor[1], factor[2])
        newH == FDiv(v.h, factor[1], factor[2])
        dx   == FDiv(FSub(v.w, newW), 2, 1)
        dy   == FDiv(FSub(v.h, newH), 2, 1)
    IN  View(FAdd(v.x, dx), FAdd(v.y, dy), newW, newH)

\* a mutant: the pan scales both axes by the horizontal ratio
pan_OneRatio(v, dxPx, dyPx, cw, ch) ==
    [v EXCEPT !.x = FSub(v.x, FMul(dxPx, FDiv(v.w, cw, 1))),
              !.y = FSub(v.y, FMul(dyPx, FDiv(v.w, cw, 1)))]

\* the pan of onMouseMove: the pointer moved by (dxPx, dyPx) pixels over a
\* container of cw by ch pixels
pan(v, dxPx, dyPx, cw, ch) ==
    LET ratioX == FDiv(v.w, cw, 1)
        ratioY == FDiv(v.h, ch, 1)
    IN  [v EXCEPT !.x = FSub(v.x, FMul(dxPx, ratioX)),
                  !.y = FSub(v.y, FMul(dyPx, ratioY))]

\* the grid of the snap, 0.5
SNAP == 500

\* a mutant: the snap rounds down
snapAxis_Floor(a) == (a \div SNAP) * SNAP

\* Math.round(a / SNAP) * SNAP: the nearest multiple of SNAP, a tie going up
snapAxis(a) == ((2 * a + SNAP) \div (2 * SNAP)) * SNAP

\* the cursor position of onMouseMove for the world point pt
snapPoint(pt, enabled) == IF enabled THEN Pt(snapAxis(pt.x), snapAxis(pt.y)) ELSE pt

\* the size of the container, in pixels: clientWidth and clientHeight
ContainerW == 1000
ContainerH == 1000

\* a press and a release less than 5 pixels apart are a click
ClickRadius == 5

\* Math.hypot(dx, dy) < 5 of onMouseUp
IsClick(from, to) ==
    Hypot2(to.x - from.x, to.y - from.y) < ClickRadius * ClickRadius

---------------------------------------------------------------------------
(* The live drawing.  The markup of a design is parsed into the elements   *)
(* of the group "cad-geometry", held in document order; an element is its  *)
(* tag, its attributes (a function from names to values) and the position  *)
(* of its parent element, 0 for a child of the group.                      *)

El(tag, attrs, parent) == [tag |-> tag, attrs |-> attrs, parent |-> parent]

\* no attribute
NoAttrs == [n \in {} |-> ""]

\* element.getAttribute(name) || '', and element.id
AttrOf(el, name) == IF name \in DOMAIN el.attrs THEN el.attrs[name] ELSE ""
IdOf(el) == AttrOf(el, "id")

\* the svgContent prop when the host has no design or a design without markup
NoContent == "none"

\* a plan: the group of a wall holding a path, and a column without a type
\*   <g id="wall-1" data-type="wall" stroke="black"><path/></g>
\*   <rect id="col-1" data-type=""/>
PlanA ==
    << El("g", ("id" :> "wall-1") @@ ("data-type" :> "wall") @@ ("stroke" :> "black"), 0),
       El("path", NoAttrs, 1),
       El("rect", ("id" :> "col-1") @@ ("data-type" :> ""), 0) >>

\* a plan with deep nesting: a beam, in it six groups nested one in the
\* other, in the third of them also an arrow head holding a line, and in
\* the beam a rectangle with the id of the grid layer
\*   <g id="beam-1"><g><g><g><g><g><g/></g></g><g id="arrowhead"><line/></g></g></g></g>
\*     <rect id="grid-layer"/></g>
PlanDeep ==
    << El("g", "id" :> "beam-1", 0),
       El("g", NoAttrs, 1), El("g", NoAttrs, 2), El("g", NoAttrs, 3),
       El("g", NoAttrs, 4), El("g", NoAttrs, 5), El("g", NoAttrs, 6),
       El("g", "id" :> "arrowhead", 4),
       El("line", NoAttrs, 8),
       El("rect", "id" :> "grid-layer", 1) >>

\* a plan of one pile:  <circle id="pile-1"/>
PlanB == << El("circle", "id" :> "pile-1", 0) >>

\* dangerouslySetInnerHTML: the elements the browser makes of the markup
Parse(content) ==
    IF content = "planA" THEN PlanA
    ELSE IF content = "planB" THEN PlanB
    ELSE IF content = "planDeep" THEN PlanDeep
    ELSE <<>>

\* the rendered group <g className="cad-geometry"> that holds the drawing
CadGeometry == [tag |-> "g", attrs |-> "class" :> "cad-geometry", node |-> 0]

RECURSIVE AncestorChain(_, _)
\* the element at position i of the drawing and its ancestors, up to and
\* without the svg root
AncestorChain(drawing, i) ==
    IF i = 0 THEN <<CadGeometry>>
    ELSE <<[tag |-> drawing[i].tag, attrs |-> drawing[i].attrs, node |-> i]>>
             \o AncestorChain(drawing, drawing[i].parent)

\* document.getElementById(id) in the live drawing: the first element, in
\* document order, with that id; 0 for null
getElementById(drawing, id) ==
    IF id = "" \/ \A i \in DOMAIN drawing : IdOf(drawing[i]) # id THEN 0
    ELSE CHOOSE i \in DOMAIN drawing :
            /\ IdOf(drawing[i]) = id
            /\ \A k \in 1..(i - 1) : IdOf(drawing[k]) # id

---------------------------------------------------------------------------
(* SelectionInspector.  The target of a click is the chain of elements     *)
(* from the clicked node up to, and without, the svg root.  root says that *)
(* the clicked node is the svg root itself, or an svg tag, or has the id   *)
(* of the grid layer.                                                      *)

NoSelection == [type |-> "none"]

Target(isRoot, elements) == [root |-> isRoot, chain |-> elements]

\* the click target that is the element at position i of the drawing
TargetOf(drawing, i) ==
    Target(drawing[i].tag = "svg" \/ IdOf(drawing[i]) = "grid-layer", AncestorChain(drawing, i))

\* current.id.startsWith('grid') || current.id.startsWith('arrow')
SkippedId(id) == id \in {"grid", "grid-layer", "grid-pattern", "arrow", "arrowhead"}

\* the depth bound of the walk up the ancestors
HitDepth == 5

\* a mutant: the element's tag is taken even if it has a data-type
typeOf_Tag(el) == el.tag

\* current.getAttribute('data-type') || current.tagName
typeOf(el) == IF AttrOf(el, "data-type") # "" THEN AttrOf(el, "data-type") ELSE el.tag

\* a mutant: the walk up the ancestors has no bound
hitIndex_Unbounded(chain, i) ==
    IF \A k \in i..Len(chain) : IdOf(chain[k]) = "" \/ SkippedId(IdOf(chain[k])) THEN 0
    ELSE CHOOSE k \in i..Len(chain) :
            /\ IdOf(chain[k]) # "" /\ ~SkippedId(IdOf(chain[k]))
            /\ \A m \in i..(k - 1) : IdOf(chain[m]) = "" \/ SkippedId(IdOf(chain[m]))

RECURSIVE hitIndex(_, _)
\* the loop of handleElementClick from the element at position i of the
\* chain (depth i - 1): the position of the element found, 0 for none
hitIndex(chain, i) ==
    IF i > Len(chain) \/ ~(i - 1 < HitDepth) THEN 0
    ELSE IF IdOf(chain[i]) # "" /\ ~SkippedId(IdOf(chain[i])) THEN i
    ELSE hitIndex(chain, i + 1)

\* the position in the chain of the element that handleElementClick selects
hitOf(target) == IF target.root THEN 0 ELSE hitIndex(target.chain, 1)

\* handleElementClick(target): the selection it sets
handleElementClick(target) ==
    IF hitOf(target) = 0 THEN NoSelection
    ELSE LET current == target.chain[hitOf(target)]
         IN  [id |-> IdOf(current), type |-> typeOf(current), attributes |-> current.attrs]

\* the element of the live drawing that handleElementClick selects, 0 for none
hitNode(target) == IF hitOf(target) = 0 THEN 0 ELSE target.chain[hitOf(target)].node

\* the element of the live drawing that is the target, 0 for none
targetNode(target) == IF target.chain = <<>> THEN 0 ELSE target.chain[1].node

\* the layers painted after the drawing, and so over it
OverlayLayers == {"highlight", "measurement", "cursor"}

\* the layer is rendered with the class pointer-events-none
PointerEventsNone(layer) == layer \in {"highlight", "cursor"}

\* the label of a measurement as a click target: a rect in the group of its
\* measurement, in the group of the measurements, in the svg element
TMeasurement ==
    Target(FALSE, <<[tag |-> "rect", attrs |-> NoAttrs, node |-> 0],
                    [tag |-> "g", attrs |-> NoAttrs, node |-> 0],
                    [tag |-> "g", attrs |-> NoAttrs, node |-> 0]>>)

\* the target of a pointer event at a point where the element at position i
\* of the drawing is painted, and over it the layers given: the topmost
\* element that takes pointer events
eventTarget(drawing, i, layers) ==
    IF \E l \in layers : ~PointerEventsNone(l) THEN TMeasurement ELSE TargetOf(drawing, i)

\* InspectorPanel.handleApply: the attributes it submits
handleApply(localId, stroke, fill, strokeWidth) ==
    ("id" :> localId) @@ ("stroke" :> stroke) @@ ("fill" :> fill) @@ ("stroke-width" :> strokeWidth)

\* a field of the inspector as the panel fills it: attributes[name] || default
inspectorField(attributes, name, default) ==
    IF name \in DOMAIN attributes /\ attributes[name] # "" THEN attributes[name] ELSE default

\* the form of the inspector after its effect has copied the selection into
\* it, and before the user edits a field
inspectorForm(sel) ==
    [localId     |-> sel.id,
     stroke      |-> inspectorField(sel.attributes, "stroke", "#22d3ee"),
     fill        |-> inspectorField(sel.attributes, "fill", "none"),
     strokeWidth |-> inspectorField(sel.attributes, "stroke-width", "2")]

\* a mutant: the selection is not updated if the element is not found
handleInspectorUpdate_NeedsElement(sel, content, drawing, newAttrs) ==
    LET el == IF sel = NoSelection THEN 0 ELSE getElementById(drawing, sel.id)
    IN  IF sel = NoSelection \/ content = NoContent \/ el = 0
        THEN [dom |-> drawing, selectedElement |-> sel, svgContent |-> content]
        ELSE [dom |-> [drawing EXCEPT ![el].attrs = newAttrs @@ @],
              selectedElement |-> [sel EXCEPT !.id = newAttrs["id"],
                                              !.attributes = newAttrs @@ @],
              svgContent |-> content]

\* a mutant: the edit is made through the host, which replaces its markup
handleInspectorUpdate_ThroughHost(sel, content, drawing, newAttrs) ==
    IF sel = NoSelection \/ content = NoContent
    THEN [dom |-> drawing, selectedElement |-> sel, svgContent |-> content]
    ELSE [dom |-> drawing,
          selectedElement |-> [sel EXCEPT !.id = newAttrs["id"], !.attributes = newAttrs @@ @],
          svgContent |-> "edited"]

\* handleInspectorUpdate(newAttrs): the live drawing and the selection it
\* leaves, and the markup the host holds after it (onSvgUpdate is not called)
handleInspectorUpdate(sel, content, drawing, newAttrs) ==
    IF sel = NoSelection \/ content = NoContent
    THEN [dom |-> drawing, selectedElement |-> sel, svgContent |-> content]
    ELSE LET el == getElementById(drawing, sel.id)
             idSet == IF newAttrs["id"] # sel.id THEN "id" :> newAttrs["id"] ELSE NoAttrs
             patch == idSet @@ ("stroke" :> newAttrs["stroke"]) @@ ("fill" :> newAttrs["fill"])
                            @@ ("stroke-width" :> newAttrs["stroke-width"])
         IN  [dom |-> IF el # 0 THEN [drawing EXCEPT ![el].attrs = patch @@ @] ELSE drawing,
              selectedElement |-> [sel EXCEPT !.id = newAttrs["id"],
                                              !.attributes = newAttrs @@ @],
              svgContent |-> content]

---------------------------------------------------------------------------
(* The detail form.  A text is a sequence of characters.                   *)

IsSpace(ch) == ch \in {" ", "\t"}

RECURSIVE trimStart(_)
trimStart(text) ==
    IF text # <<>> /\ IsSpace(Head(text)) THEN trimStart(Tail(text)) ELSE text

RECURSIVE trimEnd(_)
trimEnd(text) ==
    IF text # <<>> /\ IsSpace(text[Len(text)])
    THEN trimEnd(SubSeq(text, 1, Len(text) - 1)) ELSE text

\* String.prototype.trim
trim(text) == trimEnd(trimStart(text))

\* a mutant: the request is made twice
handleRequestDetail_Twice(input, tool, reqs) ==
    IF trim(input) # <<>>
    THEN [requests |-> reqs \o <<trim(input), trim(input)>>, detailInput |-> <<>>, activeTool |-> "select"]
    ELSE [requests |-> reqs, detailInput |-> input, activeTool |-> tool]

\* handleRequestDetail, with the onReqDetail that App passes
handleRequestDetail(input, tool, reqs) ==
    IF trim(input) # <<>>
    THEN [requests |-> Append(reqs, trim(input)), detailInput |-> <<>>, activeTool |-> "select"]
    ELSE [requests |-> reqs, detailInput |-> input, activeTool |-> tool]

---------------------------------------------------------------------------
(* App: the generation of designs and of details. *)

\* null for the detail
NoDetail == [elementId |-> <<>>, elementType |-> "none"]

\* the chat input, by what handleSubmit and handleSendMessage test of it:
\* whether it is empty after trim(), and whether COORD_REGEX matches it
ChatInput(isBlank, hasCoords) == [blank |-> isBlank, coords |-> hasCoords]

ChatInputs == {ChatInput(TRUE, FALSE), ChatInput(FALSE, FALSE), ChatInput(FALSE, TRUE)}

\* performGeneration up to its await: setStatus(THINKING) and the call of
\* generateEngineeringDesign, numbered in the order of the calls
performGeneration(st) ==
    [status |-> "THINKING", pending |-> st.pending \cup {st.issued + 1}, issued |-> st.issued + 1,
     locationCard |-> st.locationCard]

\* ChatInterface.handleSubmit and App.handleSendMessage
handleSubmit(input, st) ==
    IF input.blank \/ st.status = "THINKING" THEN st
    ELSE IF input.coords THEN [st EXCEPT !.locationCard = TRUE]
    ELSE performGeneration(st)

\* App.handleConfirmLocation, called by the CONFIRM & IMPORT button of a card
handleConfirmLocation(st) == performGeneration(st)

\* App.handleRunAudit
handleRunAudit(st) == IF st.status # "IDLE" THEN st ELSE performGeneration(st)

\* App.handleRequestDetail up to its await, for the call that is the last of
\* reqs: the modal opens, loading, on a placeholder for the element
requestDetail(reqs, st) ==
    [detailModalOpen |-> TRUE,
     isDetailLoading |-> TRUE,
     currentDetail   |-> [elementId |-> reqs[Len(reqs)], elementType |-> "Loading..."],
     detailPending   |-> st.detailPending \cup {Len(reqs)}]

\* App.handleRequestDetail after its await, for call d: the detail returned,
\* or the exception caught, and the finally clause
detailSettles(d, reqs, ok, st) ==
    [detailModalOpen |-> IF ok THEN st.detailModalOpen ELSE FALSE,
     isDetailLoading |-> FALSE,
     currentDetail   |-> IF ok THEN [elementId |-> reqs[d], elementType |-> "detail"]
                         ELSE st.currentDetail,
     detailPending   |-> st.detailPending \ {d}]

---------------------------------------------------------------------------
(* ShapeHistory: the three stacks as one record [userShapes, history, future]. *)

Hist == [userShapes |-> userShapes, history |-> history, future |-> future]

\* a mutant: the frame pushed is lost
saveState_NoPush(st) == [st EXCEPT !.future = <<>>]

\* a mutant: the redo stack survives a new action
saveState_KeepFuture(st) == [st EXCEPT !.history = Append(st.history, st.userShapes)]

\* saveState: setHistory(prev => [...prev, userShapes]); setFuture([])
saveState(st) ==
    [st EXCEPT !.history = Append(st.history, st.userShapes), !.future = <<>>]

\* a mutant: the guard on the empty stack is missing, and the frame read is undefined
handleUndo_NoGuard(st) ==
    LET n == Len(st.history)
    IN  [userShapes |-> IF n = 0 THEN <<NoShape>> ELSE st.history[n],
         history    |-> IF n = 0 THEN <<>> ELSE SubSeq(st.history, 1, n - 1),
         future     |-> <<st.userShapes>> \o st.future]

\* handleUndo
handleUndo(st) ==
    IF Len(st.history) = 0 THEN st
    ELSE LET previous   == st.history[Len(st.history)]
             newHistory == SubSeq(st.history, 1, Len(st.history) - 1)
         IN  [userShapes |-> previous,
              history    |-> newHistory,
              future     |-> <<st.userShapes>> \o st.future]

\* a mutant: redo does not push the shape list it replaces
handleRedo_Forget(st) ==
    IF Len(st.future) = 0 THEN st
    ELSE [userShapes |-> st.future[1],
          history    |-> st.history,
          future     |-> Tail(st.future)]

\* handleRedo
handleRedo(st) ==
    IF Len(st.future) = 0 THEN st
    ELSE LET next      == st.future[1]
             newFuture == Tail(st.future)
         IN  [userShapes |-> next,
              history    |-> Append(st.history, st.userShapes),
              future     |-> newFuture]

\* a keydown event, as the browser reports it
KeyboardEvent(ctrl, meta, shift, k) ==
    [ctrlKey |-> ctrl, metaKey |-> meta, shiftKey |-> shift, key |-> k]

UpperCase(letter) == IF letter = "z" THEN "Z" ELSE IF letter = "y" THEN "Y" ELSE letter

\* the key attribute of the event for a letter key: the letter in upper case
\* if exactly one of Shift and CapsLock is on; with Cmd held the platforms
\* differ in whether Shift changes the case
KeyValues(letter, meta, shift, caps) ==
    IF meta /\ shift THEN {letter, UpperCase(letter)}
    ELSE IF shift # caps THEN {UpperCase(letter)}
    ELSE {letter}

\* handleUndo as the listener runs it: c is the state the closure of the
\* listener holds, st the state the queued updates are applied to
keyUndo(c, st) ==
    IF Len(c.history) = 0 THEN st
    ELSE [userShapes |-> c.history[Len(c.history)],
          history    |-> SubSeq(c.history, 1, Len(c.history) - 1),
          future     |-> <<c.userShapes>> \o st.future]

\* handleRedo as the listener runs it
keyRedo(c, st) ==
    IF Len(c.future) = 0 THEN st
    ELSE [userShapes |-> c.future[1],
          history    |-> Append(st.history, c.userShapes),
          future     |-> Tail(c.future)]

\* handleKeyDown of the keyboard shortcut effect
handleKeyDown(e, c, st) ==
    LET afterZ == IF (e.metaKey \/ e.ctrlKey) /\ e.key = "z"
                  THEN (IF e.shiftKey THEN keyRedo(c, st) ELSE keyUndo(c, st))
                  ELSE st
    IN  IF (e.metaKey \/ e.ctrlKey) /\ e.key = "y" THEN keyRedo(c, afterZ) ELSE afterZ

RECURSIVE dispatchKeyDown(_, _, _)
\* window dispatches the event to its keydown listeners, in the order of
\* their registration
dispatchKeyDown(listeners, e, st) ==
    IF listeners = <<>> THEN st
    ELSE dispatchKeyDown(Tail(listeners), e, handleKeyDown(e, Head(listeners), st))

\* window.addEventListener('keydown', handleKeyDown)
addEventListener(listeners, c) == Append(listeners, c)

\* a mutant: the listener stays attached
removeEventListener_Keep(listeners, c) == listeners

RECURSIVE removeEventListener(_, _)
\* window.removeEventListener('keydown', handleKeyDown)
removeEventListener(listeners, c) ==
    IF listeners = <<>> THEN <<>>
    ELSE IF Head(listeners) = c THEN Tail(listeners)
    ELSE <<Head(listeners)>> \o removeEventListener(Tail(listeners), c)

\* the keyboard shortcut effect after a render: if history, future or
\* userShapes changed, its cleanup runs and it attaches the new handler
keyEffect(listeners, old, new) ==
    IF new = old THEN listeners
    ELSE addEventListener(removeEventListener(listeners, old), new)

\* saveState(); setUserShapes(prev => [...prev, currentShape])
commitShape(st, shape) ==
    [saveState(st) EXCEPT !.userShapes = Append(st.userShapes, shape)]

---------------------------------------------------------------------------
(* ToolStateMachine: the pure parts of the pointer handlers. *)

RectShape(id, pos) ==
    [id |-> id, type |-> "rect", color |-> ShapeColor,
     data |-> [x |-> pos.x, y |-> pos.y, w |-> 0, h |-> 0, startX |-> pos.x, startY |-> pos.y]]

CircleShape(id, pos) ==
    [id |-> id, type |-> "circle", color |-> ShapeColor,
     data |-> [cx |-> pos.x, cy |-> pos.y, r |-> 0]]

PolylineShape(id, pos) ==
    [id |-> id, type |-> "polyline", color |-> ShapeColor, data |-> [points |-> <<pos, pos>>]]

ArcShape(id, pos) ==
    [id |-> id, type |-> "arc", color |-> ShapeColor,
     data |-> [p1 |-> pos, p2 |-> pos, control |-> pos]]

\* handleDrawingStart would read the clock: it starts a new shape
StartsShape(tool, cs, step) ==
    \/ tool \in {"draw_rect", "draw_circle"}
    \/ tool = "draw_polyline" /\ cs = NoShape
    \/ tool = "draw_arc" /\ step = 0

\* currentShape.data.points of a shape that has no points is undefined, and
\* spreading it throws a TypeError before any state is set
DrawingStartThrows(tool, cs) ==
    tool = "draw_polyline" /\ cs # NoShape /\ cs.type # "polyline"

\* a mutant: the arc is committed by its second click
handleDrawingStart_TwoClicks(tool, pos, cs, step, st, id) ==
    IF tool = "draw_arc" /\ step = 0
    THEN [currentShape |-> ArcShape(id, pos), drawStep |-> 1, st |-> st, committed |-> FALSE]
    ELSE [currentShape |-> NoShape,
          drawStep     |-> 0,
          st           |-> IF cs # NoShape THEN commitShape(st, cs) ELSE st,
          committed    |-> cs # NoShape]

\* handleDrawingStart(tool, pos): the new currentShape, drawStep and stacks, and
\* whether a shape was committed
handleDrawingStart(tool, pos, cs, step, st, id) ==
    LET same == [currentShape |-> cs, drawStep |-> step, st |-> st, committed |-> FALSE]
    IN  IF tool = "draw_rect" THEN [same EXCEPT !.currentShape = RectShape(id, pos)]
        ELSE IF tool = "draw_circle" THEN [same EXCEPT !.currentShape = CircleShape(id, pos)]
        ELSE IF tool = "draw_polyline" THEN
            IF cs = NoShape THEN [same EXCEPT !.currentShape = PolylineShape(id, pos)]
            ELSE IF cs.type # "polyline" THEN same
            ELSE LET newPoints == Append(cs.data.points, pos)
                 IN  [same EXCEPT !.currentShape = [cs EXCEPT !.data = [points |-> newPoints]]]
        ELSE IF tool = "draw_arc" THEN
            IF step = 0 THEN [same EXCEPT !.currentShape = ArcShape(id, pos), !.drawStep = 1]
            ELSE IF step = 1 THEN [same EXCEPT !.drawStep = 2]
            ELSE IF step = 2 THEN
                [currentShape |-> NoShape,
                 drawStep     |-> 0,
                 st           |-> IF cs # NoShape THEN commitShape(st, cs) ELSE st,
                 committed    |-> cs # NoShape]
            ELSE same
        ELSE same

\* a mutant: the rectangle keeps its corner at the anchor and stores the signed extent
updateDrawingPreview_Signed(cs, step, pos) ==
    IF cs = NoShape THEN cs
    ELSE IF cs.type = "rect" THEN
        [cs EXCEPT !.data = [@ EXCEPT !.w = pos.x - cs.data.startX, !.h = pos.y - cs.data.startY]]
    ELSE cs

\* a mutant: the control point of an arc stays where it is while its end moves
updateDrawingPreview_KeepControl(cs, step, pos) ==
    IF cs = NoShape THEN cs
    ELSE IF cs.type = "arc" /\ step = 1 THEN [cs EXCEPT !.data = [@ EXCEPT !.p2 = pos]]
    ELSE IF cs.type = "arc" /\ step = 2 THEN [cs EXCEPT !.data = [@ EXCEPT !.control = pos]]
    ELSE cs

\* updateDrawingPreview(pos): the new currentShape
updateDrawingPreview(cs, step, pos) ==
    IF cs = NoShape THEN cs
    ELSE IF cs.type = "rect" THEN
        LET startX == cs.data.startX
            startY == cs.data.startY
            w == pos.x - startX
            h == pos.y - startY
        IN  [cs EXCEPT !.data = [@ EXCEPT !.x = IF w < 0 THEN pos.x ELSE startX,
                                          !.y = IF h < 0 THEN pos.y ELSE startY,
                                          !.w = Abs(w),
                                          !.h = Abs(h)]]
    ELSE IF cs.type = "circle" THEN
        LET r == Hypot(pos.x - cs.data.cx, pos.y - cs.data.cy)
        IN  [cs EXCEPT !.data = [@ EXCEPT !.r = r]]
    ELSE IF cs.type = "polyline" THEN
        LET pts == cs.data.points
        IN  [cs EXCEPT !.data = [points |-> [pts EXCEPT ![Len(pts)] = pos]]]
    ELSE IF cs.type = "arc" THEN
        IF step = 1 THEN
            [cs EXCEPT !.data = [@ EXCEPT !.p2 = pos,
                                          !.control = Pt(Half(cs.data.p1.x + pos.x),
                                                         Half(cs.data.p1.y + pos.y))]]
        ELSE IF step = 2 THEN [cs EXCEPT !.data = [@ EXCEPT !.control = pos]]
        ELSE cs
    ELSE cs

\* a mutant: the new measurement replaces the list
measureClick_Replace(ms, meas, pos) ==
    IF ms = NoPoint THEN [measureStart |-> pos, measurements |-> meas]
    ELSE [measureStart |-> NoPoint,
          measurements |->
              IF AboveThreshold(pos.x - ms.x, pos.y - ms.y)
              THEN <<[p1 |-> ms, p2 |-> pos, distance |-> ToFixed3(pos.x - ms.x, pos.y - ms.y)]>>
              ELSE meas]

\* a mutant: the start point is cleared only when a measurement is committed
measureClick_KeepStart(ms, meas, pos) ==
    IF ms = NoPoint THEN [measureStart |-> pos, measurements |-> meas]
    ELSE IF AboveThreshold(pos.x - ms.x, pos.y - ms.y)
    THEN [measureStart |-> NoPoint,
          measurements |-> Append(meas, [p1 |-> ms, p2 |-> pos,
                                         distance |-> ToFixed3(pos.x - ms.x, pos.y - ms.y)])]
    ELSE [measureStart |-> ms, measurements |-> meas]

\* the measure branch of onMouseDown: the new measureStart and measurements
measureClick(ms, meas, pos) ==
    IF ms = NoPoint THEN [measureStart |-> pos, measurements |-> meas]
    ELSE [measureStart |-> NoPoint,
          measurements |->
              IF AboveThreshold(pos.x - ms.x, pos.y - ms.y)
              THEN Append(meas, [p1 |-> ms, p2 |-> pos,
                                 distance |-> ToFixed3(pos.x - ms.x, pos.y - ms.y)])
              ELSE meas]

\* a mutant: the shape under construction is finished whatever the active tool
FinishesDrag_AnyTool(tool, cs) == cs # NoShape

\* "Finish Drag Shapes" of onMouseUp: whether the branch is entered
FinishesDrag(tool, cs) == cs # NoShape /\ tool \in {"draw_rect", "draw_circle"}

\* const valid = activeTool === 'draw_rect' ? (currentShape.data.w > 0) : (currentShape.data.r > 0)
\* (a property missing from the shape's data is undefined, and undefined > 0 is false)
validDrag(tool, cs) ==
    IF tool = "draw_rect" THEN (cs.type = "rect" /\ cs.data.w > 0)
    ELSE (cs.type = "circle" /\ cs.data.r > 0)

\* a mutant: the frame is saved before the shape is found to be degenerate
finishDrag_SaveFirst(tool, cs, st) ==
    IF FinishesDrag(tool, cs)
    THEN [currentShape |-> NoShape,
          st           |-> IF validDrag(tool, cs) THEN commitShape(st, cs) ELSE saveState(st),
          committed    |-> validDrag(tool, cs)]
    ELSE [currentShape |-> cs, st |-> st, committed |-> FALSE]

\* "Finish Drag Shapes" of onMouseUp: the new currentShape and stacks
finishDrag(tool, cs, st) ==
    IF FinishesDrag(tool, cs)
    THEN [currentShape |-> NoShape,
          st           |-> IF validDrag(tool, cs) THEN commitShape(st, cs) ELSE st,
          committed    |-> validDrag(tool, cs)]
    ELSE [currentShape |-> cs, st |-> st, committed |-> FALSE]

\* a mutant: erase-all saves the state whether or not there is a shape
clearUserShapes_AlwaysSave(st) == [saveState(st) EXCEPT !.userShapes = <<>>]

\* clearUserShapes: the new stacks
clearUserShapes(st) ==
    [(IF Len(st.userShapes) > 0 THEN saveState(st) ELSE st) EXCEPT !.userShapes = <<>>]

\* a mutant: the buttons of the drawing tools keep the shape under construction
toolButton_KeepShape(t, ms, cs, step) ==
    [activeTool   |-> t,
     measureStart |-> IF t = "measure" THEN NoPoint ELSE ms,
     currentShape |-> cs,
     drawStep     |-> IF t = "draw_arc" THEN 0 ELSE step]

\* the tool palette buttons: the state they set
toolButton(t, ms, cs, step) ==
    [activeTool   |-> t,
     measureStart |-> IF t = "measure" THEN NoPoint ELSE ms,
     currentShape |-> IF IsDrawTool(t) THEN NoShape ELSE cs,
     drawStep     |-> IF t = "draw_arc" THEN 0 ELSE step]

---------------------------------------------------------------------------
(* The state after construction and the first run of the reset effect. A  *)
(* session is the pair of the tools the user picks from and the viewBox    *)
(* values the host delivers; the host starts with no design, for which it  *)
(* passes the viewBox "0 0 100 100".                                       *)

InitWith(sessions) ==
    /\ \E sn \in sessions : palette = sn[1] /\ docs = sn[2]
    /\ viewBox = DefaultBounds
    /\ viewState = FitView(baseViewBox(DefaultBounds))
    /\ lastMousePos = Pt(0, 0)
    /\ dragStartRef = NoPoint
    /\ snapEnabled = TRUE
    /\ selectedElement = NoSelection
    /\ effectPending = FALSE
    /\ clientPos = Pt(0, 0)
    /\ worldPt = NoPoint
    /\ viewSteps = 0
    /\ downView = viewState
    /\ activeTool = "select"
    /\ cursorPos = NoPoint
    /\ measureStart = NoPoint
    /\ measurements = <<>>
    /\ userShapes = <<>>
    /\ currentShape = NoShape
    /\ drawStep = 0
    /\ history = <<>>
    /\ future = <<>>
    /\ isPanning = FALSE
    /\ nextId = 1
    /\ buttonDown = FALSE
    /\ clickCount = 0
    /\ lastEvent = "none"
    /\ runBase = <<>>
    /\ runLen = 0
    /\ abandoned = {}
    /\ polyClicks = <<>>
    /\ svgContent = "planA"
    /\ dom = Parse("planA")
    /\ selectedNode = 0
    /\ clickedNode = 0
    /\ aimedNode = 0
    /\ submitted = NoAttrs
    /\ detailInput = <<>>
    /\ requests = <<>>
    /\ keyListeners = addEventListener(<<>>, [userShapes |-> <<>>, history |-> <<>>, future |-> <<>>])
    /\ mounted = TRUE
    /\ status = "IDLE"
    /\ pending = {}
    /\ issued = 0
    /\ shownGen = 0
    /\ locationCard = FALSE
    /\ detailModalOpen = FALSE
    /\ currentDetail = NoDetail
    /\ isDetailLoading = FALSE
    /\ detailPending = {}

---------------------------------------------------------------------------
(* Events.  The browser dispatches dblclick right after the second of two  *)
(* presses and releases made without moving the pointer; nothing else runs *)
(* in between.  React runs a queued effect before it handles another       *)
(* event, and the browser may paint in between.                            *)

DblClickPending == clickCount = 2 /\ ~buttonDown

\* a handler other than onDoubleClick and the reset effect can run
Idle == mounted /\ ~DblClickPending /\ ~effectPending

\* the stacks are set from a record
SetHist(st) ==
    /\ userShapes' = st.userShapes
    /\ history' = st.history
    /\ future' = st.future

\* the run of commits: a handler that called saveState extends it
RunCommitted ==
    /\ runBase' = IF runLen = 0 THEN userShapes ELSE runBase
    /\ runLen' = runLen + 1

\* the run of commits ends with undo, redo and the reset of the document
RunEnded ==
    /\ runBase' = <<>>
    /\ runLen' = 0

RunAfter(committed) == IF committed THEN RunCommitted ELSE UNCHANGED <<runBase, runLen>>

\* the keyboard shortcut effect runs after the render that follows the handler
KeyEffectRuns == keyListeners' = keyEffect(keyListeners, Hist, Hist')

\* the handler leaves the host, the live drawing and the detail form alone
HostIdle ==
    /\ UNCHANGED <<svgContent, dom, selectedNode, clickedNode, aimedNode, submitted, detailInput, requests, mounted, appVars>>
    /\ KeyEffectRuns

\* the state of the generation of designs, and of details, in the App
GenState == [status |-> status, pending |-> pending, issued |-> issued, locationCard |-> locationCard]

DetailState ==
    [detailModalOpen |-> detailModalOpen, isDetailLoading |-> isDetailLoading,
     currentDetail |-> currentDetail, detailPending |-> detailPending]

SetGen(st) ==
    /\ status' = st.status
    /\ pending' = st.pending
    /\ issued' = st.issued
    /\ locationCard' = st.locationCard

\* a handler of the App leaves the canvas alone
CanvasIdle ==
    /\ UNCHANGED toolVarsButEvent
    /\ UNCHANGED viewVars
    /\ UNCHANGED <<svgContent, dom, selectedNode, clickedNode, aimedNode, submitted, detailInput,
                   requests, mounted>>
    /\ KeyEffectRuns

\* the form of the chat is submitted
ChatSubmit(input) ==
    /\ handleSubmit(input, GenState).issued <= MaxGenerations
    /\ SetGen(handleSubmit(input, GenState))
    /\ lastEvent' = IF input.blank \/ status = "THINKING" THEN "chat:ignored"
                     ELSE IF input.coords THEN "chat:card" ELSE "chat:generate"
    /\ UNCHANGED <<shownGen, detailModalOpen, currentDetail, isDetailLoading, detailPending>>
    /\ CanvasIdle

\* the CONFIRM & IMPORT button of a location card in the chat
ConfirmLocation ==
    /\ locationCard
    /\ issued < MaxGenerations
    /\ SetGen(handleConfirmLocation(GenState))
    /\ lastEvent' = "confirm"
    /\ UNCHANGED <<shownGen, detailModalOpen, currentDetail, isDetailLoading, detailPending>>
    /\ CanvasIdle

\* the audit button of the report
RunAudit ==
    /\ handleRunAudit(GenState).issued <= MaxGenerations
    /\ SetGen(handleRunAudit(GenState))
    /\ lastEvent' = IF status # "IDLE" THEN "audit:ignored" ELSE "audit"
    /\ UNCHANGED <<shownGen, detailModalOpen, currentDetail, isDetailLoading, detailPending>>
    /\ CanvasIdle

\* the close button of the detail modal: setDetailModalOpen(false)
CloseDetail ==
    /\ detailModalOpen
    /\ detailModalOpen' = FALSE
    /\ lastEvent' = "detail:close"
    /\ UNCHANGED <<status, pending, issued, shownGen, locationCard, currentDetail,
                   isDetailLoading, detailPending>>
    /\ CanvasIdle

\* generateElementDetail returns for call d, with a detail or with an exception
DetailSettles(d, ok) ==
    /\ d \in detailPending
    /\ LET a == detailSettles(d, requests, ok, DetailState)
       IN  /\ detailModalOpen' = a.detailModalOpen
           /\ isDetailLoading' = a.isDetailLoading
           /\ currentDetail' = a.currentDetail
           /\ detailPending' = a.detailPending
    /\ lastEvent' = IF ok THEN "detail:response" ELSE "detail:failure"
    /\ UNCHANGED <<status, pending, issued, shownGen, locationCard>>
    /\ CanvasIdle

\* a tool button, by pointer or by keyboard
ClickTool(t) ==
    /\ Idle
    /\ t \in palette
    /\ LET b == toolButton(t, measureStart, currentShape, drawStep)
       IN  /\ activeTool' = b.activeTool
           /\ measureStart' = b.measureStart
           /\ currentShape' = b.currentShape
           /\ drawStep' = b.drawStep
           /\ polyClicks' = IF b.currentShape = NoShape THEN <<>> ELSE polyClicks
    /\ abandoned' = IF t # activeTool /\ currentShape # NoShape
                    THEN abandoned \cup {currentShape.id} ELSE abandoned
    /\ lastEvent' = IF t # activeTool THEN "switch" ELSE "other"
    /\ UNCHANGED <<cursorPos, measurements, userShapes, history, future, isPanning,
                   nextId, palette, buttonDown, clickCount, runBase, runLen>>
    /\ UNCHANGED viewVars
    /\ HostIdle

\* onMouseDown, primary button; a polyline under construction holds at most
\* maxPts vertices, and at most maxMeas measurements are held
MouseDownWith(maxPts, maxMeas) ==
    /\ Idle
    /\ ~buttonDown
    /\ buttonDown' = TRUE
    /\ clickCount' = clickCount + 1
    /\ dragStartRef' = clientPos
    /\ downView' = viewState
    /\ lastMousePos' = IF cursorPos # NoPoint /\ activeTool = "select" THEN clientPos
                       ELSE lastMousePos
    /\ UNCHANGED <<activeTool, cursorPos, abandoned, palette>>
    /\ UNCHANGED <<viewBox, viewState, snapEnabled, selectedElement, effectPending, clientPos,
                   worldPt, docs, viewSteps>>
    /\ IF cursorPos = NoPoint THEN
           /\ lastEvent' = "other"
           /\ UNCHANGED <<measureStart, measurements, userShapes, currentShape, drawStep,
                          history, future, isPanning, nextId, runBase, runLen, polyClicks>>
       ELSE IF activeTool = "measure" THEN
           LET m == measureClick(measureStart, measurements, cursorPos)
           IN  /\ Len(m.measurements) <= maxMeas
               /\ measureStart' = m.measureStart
               /\ measurements' = m.measurements
               /\ lastEvent' = IF measureStart = NoPoint THEN "measure:start"
                               ELSE IF m.measurements # measurements THEN "measure:commit"
                               ELSE "measure:discard"
               /\ UNCHANGED <<userShapes, currentShape, drawStep, history, future, isPanning,
                              nextId, runBase, runLen, polyClicks>>
       ELSE IF IsDrawTool(activeTool) THEN
           IF DrawingStartThrows(activeTool, currentShape) THEN
               /\ lastEvent' = "throw"
               /\ UNCHANGED <<measureStart, measurements, userShapes, currentShape, drawStep,
                              history, future, isPanning, nextId, runBase, runLen, polyClicks>>
           ELSE
               LET starts == StartsShape(activeTool, currentShape, drawStep)
                   d == handleDrawingStart(activeTool, cursorPos, currentShape, drawStep, Hist, nextId)
               IN  /\ starts => nextId <= MaxIds
                   /\ d.currentShape.type = "polyline"
                          => Len(d.currentShape.data.points) <= maxPts
                   /\ currentShape' = d.currentShape
                   /\ drawStep' = d.drawStep
                   /\ SetHist(d.st)
                   /\ RunAfter(d.committed)
                   /\ nextId' = IF starts THEN nextId + 1 ELSE nextId
                   /\ polyClicks' = IF d.currentShape.type \notin {"polyline", "arc"} THEN <<>>
                                    ELSE IF starts THEN <<cursorPos>>
                                    ELSE Append(polyClicks, cursorPos)
                   /\ lastEvent' = IF d.committed THEN "arc:commit" ELSE "other"
                   /\ UNCHANGED <<measureStart, measurements, isPanning>>
       ELSE
           /\ isPanning' = IF activeTool = "select" THEN TRUE ELSE isPanning
           /\ lastEvent' = "other"
           /\ UNCHANGED <<measureStart, measurements, userShapes, currentShape, drawStep,
                          history, future, nextId, runBase, runLen, polyClicks>>
    /\ HostIdle

\* onMouseDown, primary button
MouseDown(maxPts) == MouseDownWith(maxPts, MaxMeasurements)

\* "1. Panning" of onMouseMove: whether the branch is entered
Pans == isPanning /\ activeTool = "select"

\* onMouseMove with the pointer at screen position s, which the inverse of
\* the screen transform of the svg element takes to the world point p
MouseMove(p, s) ==
    /\ Idle
    /\ clientPos' = s
    /\ IF Pans THEN
           /\ s # lastMousePos => viewSteps < MaxViewSteps
           /\ viewState' = pan(viewState, s.x - lastMousePos.x, s.y - lastMousePos.y,
                               ContainerW, ContainerH)
           /\ lastMousePos' = s
           /\ viewSteps' = IF s # lastMousePos THEN viewSteps + 1 ELSE viewSteps
           /\ lastEvent' = "pan"
       ELSE
           /\ lastEvent' = "other"
           /\ UNCHANGED <<viewState, lastMousePos, viewSteps>>
    /\ IF svgContent # NoContent THEN
           /\ worldPt' = p
           /\ cursorPos' = snapPoint(p, snapEnabled)
           /\ currentShape' = updateDrawingPreview(currentShape, drawStep, snapPoint(p, snapEnabled))
       ELSE
           UNCHANGED <<worldPt, cursorPos, currentShape>>
    /\ clickCount' = 0
    /\ UNCHANGED <<activeTool, measureStart, measurements, userShapes, drawStep, history,
                   future, isPanning, nextId, palette, buttonDown, runBase, runLen, abandoned,
                   polyClicks>>
    /\ UNCHANGED <<viewBox, dragStartRef, snapEnabled, selectedElement, effectPending, docs, downView>>
    /\ HostIdle

\* "Handle Selection" of onMouseUp: whether handleElementClick is called
SelectsOnUp == activeTool = "select" /\ dragStartRef # NoPoint /\ IsClick(dragStartRef, clientPos)

\* what onMouseUp sets; target is the element the event is aimed at
MouseUpEffect(target) ==
    LET f == finishDrag(activeTool, currentShape, Hist)
    IN  /\ isPanning' = FALSE
        /\ currentShape' = f.currentShape
        /\ SetHist(f.st)
        /\ RunAfter(f.committed)
        /\ polyClicks' = IF f.currentShape = NoShape THEN <<>> ELSE polyClicks
        /\ selectedElement' = IF SelectsOnUp THEN handleElementClick(target) ELSE selectedElement
        /\ selectedNode' = IF SelectsOnUp THEN hitNode(target) ELSE selectedNode
        /\ clickedNode' = IF SelectsOnUp THEN targetNode(target) ELSE clickedNode
        /\ dragStartRef' = NoPoint
        /\ lastEvent' = IF FinishesDrag(activeTool, currentShape)
                        THEN (IF f.committed THEN "drag:commit" ELSE "drag:discard")
                        ELSE IF SelectsOnUp THEN "click"
                        ELSE "other"

\* onMouseUp with the event aimed at target, the pointer being at a point
\* where the element under of the live drawing is painted (0 for none)
MouseUpOver(target, under) ==
    /\ mounted
    /\ ~effectPending
    /\ buttonDown
    /\ buttonDown' = FALSE
    /\ MouseUpEffect(target)
    /\ aimedNode' = IF SelectsOnUp THEN under ELSE aimedNode
    /\ UNCHANGED <<activeTool, cursorPos, measureStart, measurements, drawStep, nextId,
                   palette, clickCount, abandoned>>
    /\ UNCHANGED <<viewBox, viewState, lastMousePos, snapEnabled, effectPending, clientPos,
                   worldPt, docs, viewSteps>>
    /\ downView' = viewState
    /\ UNCHANGED <<svgContent, dom, submitted, detailInput, requests, mounted, appVars>>
    /\ KeyEffectRuns

\* onMouseUp, with nothing painted over the element aimed at
MouseUp(target) == MouseUpOver(target, targetNode(target))

\* onMouseUp with the pointer over the element at position i of the drawing,
\* at a point where the layers given are painted: the selection highlight if
\* there is a selection, a measurement if there is one, the cursor guides if
\* there is a cursor point
ReleaseOver(i, layers) ==
    /\ svgContent # NoContent
    /\ i \in DOMAIN dom
    /\ "highlight" \in layers => selectedElement # NoSelection
    /\ "measurement" \in layers => measurements # <<>>
    /\ "cursor" \in layers => cursorPos # NoPoint
    /\ MouseUpOver(eventTarget(dom, i, layers), i)

\* onMouseLeave: onMouseUp(e); setCursorPos(null)
MouseLeave(target) ==
    /\ Idle
    /\ buttonDown' = FALSE
    /\ clickCount' = 0
    /\ MouseUpEffect(target)
    /\ aimedNode' = IF SelectsOnUp THEN targetNode(target) ELSE aimedNode
    /\ cursorPos' = NoPoint
    /\ worldPt' = NoPoint
    /\ UNCHANGED <<activeTool, measureStart, measurements, drawStep, nextId, palette, abandoned>>
    /\ UNCHANGED <<viewBox, viewState, lastMousePos, snapEnabled, effectPending, clientPos,
                   docs, viewSteps>>
    /\ downView' = viewState
    /\ UNCHANGED <<svgContent, dom, submitted, detailInput, requests, mounted, appVars>>
    /\ KeyEffectRuns

\* onDoubleClick
DoubleClick ==
    /\ mounted
    /\ DblClickPending
    /\ ~effectPending
    /\ clickCount' = 0
    /\ IF activeTool = "draw_polyline" /\ currentShape # NoShape THEN
           /\ SetHist(commitShape(Hist, currentShape))
           /\ currentShape' = NoShape
           /\ RunCommitted
           /\ lastEvent' = "dbl:commit"
           /\ UNCHANGED polyClicks
       ELSE
           /\ lastEvent' = "other"
           /\ UNCHANGED <<userShapes, history, future, currentShape, runBase, runLen, polyClicks>>
    /\ UNCHANGED <<activeTool, cursorPos, measureStart, measurements, drawStep, isPanning,
                   nextId, palette, buttonDown, abandoned>>
    /\ UNCHANGED viewVars
    /\ HostIdle

\* the undo button and Ctrl/Cmd+Z
Undo ==
    /\ Idle
    /\ SetHist(handleUndo(Hist))
    /\ RunEnded
    /\ lastEvent' = IF Len(history) = 0 THEN "undo:empty" ELSE "undo"
    /\ UNCHANGED <<activeTool, cursorPos, measureStart, measurements, currentShape, drawStep,
                   isPanning, nextId, palette, buttonDown, clickCount, abandoned, polyClicks>>
    /\ UNCHANGED viewVars
    /\ HostIdle

\* the redo button, Ctrl/Cmd+Shift+Z and Ctrl/Cmd+Y
Redo ==
    /\ Idle
    /\ SetHist(handleRedo(Hist))
    /\ RunEnded
    /\ lastEvent' = IF Len(future) = 0 THEN "redo:empty" ELSE "redo"
    /\ UNCHANGED <<activeTool, cursorPos, measureStart, measurements, currentShape, drawStep,
                   isPanning, nextId, palette, buttonDown, clickCount, abandoned, polyClicks>>
    /\ UNCHANGED viewVars
    /\ HostIdle

\* the erase-all button, shown while there is a measurement or a user shape:
\* clearMeasurements(); clearUserShapes()
EraseAll ==
    /\ Idle
    /\ Len(measurements) > 0 \/ Len(userShapes) > 0
    /\ measurements' = <<>>
    /\ measureStart' = NoPoint
    /\ SetHist(clearUserShapes(Hist))
    /\ currentShape' = NoShape
    /\ drawStep' = 0
    /\ RunAfter(Len(userShapes) > 0)
    /\ polyClicks' = <<>>
    /\ lastEvent' = IF Len(userShapes) > 0 THEN "erase:shapes" ELSE "erase:empty"
    /\ UNCHANGED <<activeTool, cursorPos, isPanning, nextId, palette, buttonDown, clickCount, abandoned>>
    /\ UNCHANGED viewVars
    /\ HostIdle

\* onChange of the input of the detail form, shown while the tool is detail
TypeDetail(text) ==
    /\ Idle
    /\ activeTool = "detail"
    /\ detailInput' = text
    /\ lastEvent' = "other"
    /\ UNCHANGED toolVarsButEvent
    /\ UNCHANGED viewVars
    /\ UNCHANGED <<svgContent, dom, selectedNode, clickedNode, aimedNode, submitted, requests, mounted, appVars>>
    /\ KeyEffectRuns

\* handleRequestDetail: the form of the detail tool is submitted
SubmitDetail ==
    /\ Idle
    /\ activeTool = "detail"
    /\ LET r == handleRequestDetail(detailInput, activeTool, requests)
       IN  /\ Len(r.requests) <= MaxRequests
           /\ requests' = r.requests
           /\ detailInput' = r.detailInput
           /\ activeTool' = r.activeTool
           /\ abandoned' = IF r.activeTool # activeTool /\ currentShape # NoShape
                           THEN abandoned \cup {currentShape.id} ELSE abandoned
           /\ lastEvent' = IF r.requests # requests THEN "submit:sent" ELSE "submit:empty"
           /\ LET a == IF r.requests # requests
                       THEN requestDetail(r.requests, DetailState)
                       ELSE DetailState
              IN  /\ detailModalOpen' = a.detailModalOpen
                  /\ isDetailLoading' = a.isDetailLoading
                  /\ currentDetail' = a.currentDetail
                  /\ detailPending' = a.detailPending
    /\ UNCHANGED <<cursorPos, measureStart, measurements, userShapes, currentShape, drawStep,
                   history, future, isPanning, nextId, palette, buttonDown, clickCount, runBase,
                   runLen, polyClicks>>
    /\ UNCHANGED viewVars
    /\ UNCHANGED <<svgContent, dom, selectedNode, clickedNode, aimedNode, submitted, mounted>>
    /\ UNCHANGED <<status, pending, issued, shownGen, locationCard>>
    /\ KeyEffectRuns

\* the host renders the canvas with a design (a generation result or a
\* restored snapshot) of viewBox vb and markup content: the render is
\* committed, the markup, if it is another string, replaces the elements of
\* the live drawing, and the reset effect is queued if baseViewBox changed,
\* which it does with the viewBox
CanvasRenders(vb, content) ==
    /\ Idle
    /\ vb \in docs
    /\ viewBox' = vb
    /\ svgContent' = content
    /\ dom' = IF content # svgContent THEN Parse(content) ELSE dom
    /\ selectedNode' = IF content # svgContent THEN 0 ELSE selectedNode
    /\ clickedNode' = IF content # svgContent THEN 0 ELSE clickedNode
    /\ aimedNode' = IF content # svgContent THEN 0 ELSE aimedNode
    /\ effectPending' = (vb # viewBox)
    /\ lastEvent' = IF vb # viewBox THEN "doc:new" ELSE "doc:same"
    /\ UNCHANGED <<activeTool, cursorPos, measureStart, measurements, userShapes, currentShape,
                   drawStep, history, future, isPanning, nextId, palette, buttonDown,
                   clickCount, runBase, runLen, abandoned, polyClicks>>
    /\ UNCHANGED <<viewState, lastMousePos, dragStartRef, snapEnabled, selectedElement,
                   clientPos, worldPt, docs, viewSteps, downView>>
    /\ UNCHANGED <<submitted, detailInput, requests, mounted>>
    /\ KeyEffectRuns

\* handleRestoreSnapshot: the host renders the canvas with a design it holds
DesignArrives(vb, content) ==
    /\ CanvasRenders(vb, content)
    /\ UNCHANGED appVars

\* performGeneration after its await, for call g: the response becomes the
\* current design, which the canvas is rendered with, and the status IDLE
GenerationResponds(g, vb, content) ==
    /\ g \in pending
    /\ pending' = pending \ {g}
    /\ shownGen' = g
    /\ status' = "IDLE"
    /\ CanvasRenders(vb, content)
    /\ UNCHANGED <<issued, locationCard, detailModalOpen, currentDetail, isDetailLoading,
                   detailPending>>

\* performGeneration after its await, for call g: the exception is caught
GenerationFails(g) ==
    /\ g \in pending
    /\ pending' = pending \ {g}
    /\ status' = "ERROR"
    /\ lastEvent' = "gen:failure"
    /\ UNCHANGED <<issued, shownGen, locationCard, detailModalOpen, currentDetail,
                   isDetailLoading, detailPending>>
    /\ CanvasIdle

\* a design with the markup of the design before it
DocumentArrives(vb) == DesignArrives(vb, svgContent)

\* the Apply button of the inspector, shown while there is a selection, with
\* the values of its four fields: handleApply, handleInspectorUpdate
ApplyEdit(localId, stroke, fill, strokeWidth) ==
    /\ Idle
    /\ selectedElement # NoSelection
    /\ LET u == handleInspectorUpdate(selectedElement, svgContent, dom,
                                      handleApply(localId, stroke, fill, strokeWidth))
       IN  /\ dom' = u.dom
           /\ selectedElement' = u.selectedElement
           /\ svgContent' = u.svgContent
    /\ submitted' = handleApply(localId, stroke, fill, strokeWidth)
    /\ lastEvent' = "edit"
    /\ UNCHANGED toolVarsButEvent
    /\ UNCHANGED <<viewBox, viewState, lastMousePos, dragStartRef, snapEnabled, effectPending,
                   clientPos, worldPt, docs, viewSteps, downView>>
    /\ UNCHANGED <<selectedNode, clickedNode, aimedNode, detailInput, requests, mounted, appVars>>
    /\ KeyEffectRuns

\* the Apply button pressed with the form as the panel filled it
ApplyUntouched ==
    /\ selectedElement # NoSelection
    /\ LET form == inspectorForm(selectedElement)
       IN  ApplyEdit(form.localId, form.stroke, form.fill, form.strokeWidth)

\* the close button of the inspector: setSelectedElement(null)
CloseInspector ==
    /\ Idle
    /\ selectedElement # NoSelection
    /\ selectedElement' = NoSelection
    /\ selectedNode' = 0
    /\ clickedNode' = 0
    /\ aimedNode' = 0
    /\ lastEvent' = "other"
    /\ UNCHANGED toolVarsButEvent
    /\ UNCHANGED <<viewBox, viewState, lastMousePos, dragStartRef, snapEnabled, effectPending,
                   clientPos, worldPt, docs, viewSteps, downView>>
    /\ UNCHANGED <<svgContent, dom, submitted, detailInput, requests, mounted, appVars>>
    /\ KeyEffectRuns

\* the keystroke the user makes: Ctrl or Cmd with Z is the undo shortcut,
\* Ctrl or Cmd with Shift and Z, or with Y, the redo shortcut
Shortcut(ctrl, meta, shift, letter) ==
    IF ~(ctrl \/ meta) THEN "key:other"
    ELSE IF letter = "z" THEN (IF shift THEN "key:redo" ELSE "key:undo")
    ELSE IF letter = "y" /\ ~shift THEN "key:redo"
    ELSE "key:other"

\* a keydown on window, of the letter key with the modifiers and CapsLock
\* as given: the listeners attached run
KeyDown(ctrl, meta, shift, caps, letter) ==
    /\ Idle
    /\ \E k \in KeyValues(letter, meta, shift, caps) :
          SetHist(dispatchKeyDown(keyListeners, KeyboardEvent(ctrl, meta, shift, k), Hist))
    /\ IF Hist' # Hist THEN RunEnded ELSE UNCHANGED <<runBase, runLen>>
    /\ lastEvent' = Shortcut(ctrl, meta, shift, letter)
    /\ UNCHANGED <<activeTool, cursorPos, measureStart, measurements, currentShape, drawStep,
                   isPanning, nextId, palette, buttonDown, clickCount, abandoned, polyClicks>>
    /\ UNCHANGED viewVars
    /\ HostIdle

\* the canvas is unmounted: the cleanup of the keyboard shortcut effect runs
Unmount ==
    /\ mounted
    /\ mounted' = FALSE
    /\ keyListeners' = removeEventListener(keyListeners, Hist)
    /\ lastEvent' = "unmount"
    /\ UNCHANGED toolVarsButEvent
    /\ UNCHANGED viewVars
    /\ UNCHANGED <<svgContent, dom, selectedNode, clickedNode, aimedNode, submitted, detailInput, requests>>
    /\ UNCHANGED appVars

\* the Initialize/Reset effect, run when the viewBox of the document changes
DocumentReset ==
    /\ mounted
    /\ effectPending
    /\ effectPending' = FALSE
    /\ viewState' = FitView(baseViewBox(viewBox))
    /\ viewSteps' = 0
    /\ measurements' = <<>>
    /\ userShapes' = <<>>
    /\ history' = <<>>
    /\ future' = <<>>
    /\ selectedElement' = NoSelection
    /\ RunEnded
    /\ lastEvent' = "reset"
    /\ UNCHANGED <<activeTool, cursorPos, measureStart, currentShape, drawStep, isPanning,
                   nextId, palette, buttonDown, clickCount, abandoned, polyClicks>>
    /\ downView' = FitView(baseViewBox(viewBox))
    /\ UNCHANGED <<viewBox, lastMousePos, dragStartRef, snapEnabled, clientPos, worldPt, docs>>
    /\ selectedNode' = 0
    /\ clickedNode' = 0
    /\ aimedNode' = 0
    /\ UNCHANGED <<svgContent, dom, submitted, detailInput, requests, mounted, appVars>>
    /\ KeyEffectRuns

\* the zoom buttons, pressed with the pointer: handleZoomIn, handleZoomOut
Zoom(factor, label) ==
    /\ Idle
    /\ ~buttonDown
    /\ viewSteps < MaxViewSteps
    /\ viewState' = handleZoom(viewState, factor)
    /\ viewSteps' = viewSteps + 1
    /\ lastEvent' = label
    /\ UNCHANGED toolVarsButEvent
    /\ downView' = handleZoom(viewState, factor)
    /\ UNCHANGED <<viewBox, lastMousePos, dragStartRef, snapEnabled, selectedElement,
                   effectPending, clientPos, worldPt, docs>>
    /\ HostIdle

ZoomIn == Zoom(ZoomInFactor, "zoom:in")

ZoomOut == Zoom(ZoomOutFactor, "zoom:out")

\* the fit-to-screen button, pressed with the pointer: handleReset
ResetView ==
    /\ Idle
    /\ ~buttonDown
    /\ viewState' = FitView(baseViewBox(viewBox))
    /\ viewSteps' = 0
    /\ lastEvent' = "fit"
    /\ UNCHANGED toolVarsButEvent
    /\ downView' = FitView(baseViewBox(viewBox))
    /\ UNCHANGED <<viewBox, lastMousePos, dragStartRef, snapEnabled, selectedElement,
                   effectPending, clientPos, worldPt, docs>>
    /\ HostIdle

\* the snap button: setSnapEnabled(!snapEnabled)
ToggleSnap ==
    /\ Idle
    /\ snapEnabled' = ~snapEnabled
    /\ lastEvent' = "other"
    /\ UNCHANGED toolVarsButEvent
    /\ UNCHANGED <<viewBox, viewState, lastMousePos, dragStartRef, selectedElement,
                   effectPending, clientPos, worldPt, docs, viewSteps, downView>>
    /\ HostIdle

---------------------------------------------------------------------------
(* Specifications: the same handlers, driven with different sessions,      *)
(* pointer positions and click targets.                                    *)

\* pointer positions, in units of 0.001: the origin, a point 0.006 away from
\* it, the point (3,4), a point 0.01 away from the origin, one 0.011 away,
\* the grid point 0.5 away, and a point off the grid with one coordinate
\* half way between two grid lines
P0 == Pt(0, 0)
P1 == Pt(6, 0)
P2 == Pt(3000, 4000)
P3 == Pt(10, 0)
P4 == Pt(11, 0)
P5 == Pt(500, 0)
P6 == Pt(260, -250)

\* a grid point above and to the right of the origin and of (3,4)
P7 == Pt(3500, -500)

\* screen positions of the pointer, in pixels: 3 and 10 pixels apart from the first
S0 == Pt(0, 0)
S1 == Pt(3, 0)
S2 == Pt(6, 8)

\* click targets: the background, and a path inside the identified group of a wall
TBack == Target(TRUE, <<>>)
TWall == TargetOf(PlanA, 2)

\* the container of a canvas without a drawing: it and its ancestors in the
\* page have no id
TContainer == Target(FALSE, [i \in 1..6 |-> [tag |-> "div", attrs |-> NoAttrs, node |-> 0]])

\* the click targets of the canvas as it is rendered
LiveTargets ==
    IF svgContent = NoContent THEN {TContainer}
    ELSE {TBack} \cup {TargetOf(dom, i) : i \in DOMAIN dom}

\* texts typed into the detail form: nothing, white space, an identifier,
\* and an identifier in white space
TextEmpty == <<>>
TextBlank == <<" ", "\t">>
TextId == <<"W", "1">>
TextPadded == <<" ", "W", "2", "\t">>

\* the viewBox of a design: "4.095 0 100 80"
DocB == <<4095, 0, 100000, 80000>>

\* the tool buttons and the pointer, with the world positions P and the
\* screen positions S of the pointer and the click targets T
PointerEvents(P, S, T, maxPts) ==
    \/ \E t \in ToolType : ClickTool(t)
    \/ MouseDown(maxPts)
    \/ \E p \in P, s \in S : MouseMove(p, s)
    \/ \E target \in T : MouseUp(target)
    \/ \E target \in T : MouseLeave(target)
    \/ DoubleClick

\* undo, redo and erase-all
\* the detail form, with the texts typed into it
DetailEvents(texts) ==
    \/ \E text \in texts : TypeDetail(text)
    \/ SubmitDetail

\* the host delivers designs with the markups C
DesignEvents(C) ==
    \/ \E vb \in docs, content \in C : DesignArrives(vb, content)
    \/ DocumentReset

\* the inspector, with the values typed into its fields
InspectorEvents(ids, strokes) ==
    \/ \E localId \in ids, stroke \in strokes : ApplyEdit(localId, stroke, "none", "2")
    \/ CloseInspector

\* keystrokes of the keys Z and Y
KeyEvents ==
    \E ctrl \in BOOLEAN, meta \in BOOLEAN, shift \in BOOLEAN, caps \in BOOLEAN, letter \in {"z", "y"} :
        KeyDown(ctrl, meta, shift, caps, letter)

HistoryEvents ==
    \/ Undo
    \/ Redo
    \/ EraseAll

\* the host delivers a design, and the reset effect runs
DocumentEvents ==
    \/ \E vb \in docs : DocumentArrives(vb)
    \/ DocumentReset

\* every handler of the tools and the history
NextWith(P, S, T, maxPts) ==
    \/ PointerEvents(P, S, T, maxPts)
    \/ HistoryEvents
    \/ DocumentEvents

\* the same, with the pointer's screen position not told apart and the clicks on the background
NextOver(P, maxPts) == NextWith(P, {S0}, {TBack}, maxPts)

\* the sessions of the palettes, each with the host delivering the viewBox values ds
Sessions(palettes, ds) == {<<pl, ds>> : pl \in palettes}

\* sessions in which the host delivers a design, and then the same again
InitOver(palettes) == InitWith(Sessions(palettes, {DocB}))

\* a session with the drag tools, one with the arc tool, one with the polyline
\* tool; the host delivers a design in the second
Init ==
    InitWith(Sessions({{"select", "draw_rect", "draw_circle"}, {"draw_polyline"}}, {})
                 \cup Sessions({{"draw_arc"}}, {DocB}))

Next == NextOver({P0, P5}, ShortPolyPts)

Spec == Init /\ [][Next]_vars

\* a session with the tape measure, the pointer also at (3,4) and on both
\* sides of the threshold
InitMeasure == InitOver({{"measure"}})

NextMeasure == NextOver({P0, P1, P2, P3, P4, P6}, ShortPolyPts) \/ ToggleSnap

SpecMeasure == InitMeasure /\ [][NextMeasure]_vars

\* a session with the tape measure and the rectangle tool, and one with the
\* tape measure in which the host delivers a design
InitErase ==
    InitWith(Sessions({{"measure", "draw_rect"}}, {}) \cup Sessions({{"measure"}}, {DocB}))

NextErase == NextOver({P0, P2}, ShortPolyPts)

SpecErase == InitErase /\ [][NextErase]_vars

\* a session with the polyline tool, and one with the select tool in which
\* the host delivers a design
InitPoly ==
    InitWith(Sessions({{"draw_polyline"}}, {}) \cup Sessions({{"select"}}, {DocB}))

NextPoly == NextOver({P0, P5}, MaxPolyPts)

SpecPoly == InitPoly /\ [][NextPoly]_vars

\* sessions that switch between a drawing tool and select, measure, detail
\* or another drawing tool
InitTools ==
    InitWith(Sessions({{"draw_polyline"}, {"draw_arc", "draw_rect"},
                       {"measure", "draw_rect"}, {"detail", "draw_circle"}}, {})
                 \cup Sessions({{"detail"}}, {DocB}))

NextTools == NextOver({P0, P5}, ShortPolyPts) \/ DetailEvents({TextId})

SpecTools == InitTools /\ [][NextTools]_vars

\* viewBox values: a width of zero, a token that is not a number, three
\* tokens, five tokens
DocZero == <<0, 0, 0, 100000>>
DocNaN == <<0, 0, NaN, 100000>>
DocShort == <<0, 0, 100000>>
DocLong == <<0, 0, 100000, 100000, 0>>

\* a session with the tape measure and one with the select and rectangle
\* tools, in which the host delivers a design, and one with the select tool,
\* in which it delivers well-formed and malformed designs; the user zooms in
InitDocs ==
    InitWith(Sessions({{"measure"}, {"draw_rect"}}, {DocB})
                 \cup Sessions({{"select"}}, {DefaultBounds, DocNaN, DocShort, DocLong}))

NextDocs == NextWith({P0, P5}, {S0}, {TBack, TWall}, ShortPolyPts) \/ ZoomIn

SpecDocs == InitDocs /\ [][NextDocs]_vars

\* a session in which the user selects, zooms, pans and fits, with the
\* pointer moving on the screen
InitView == InitWith(Sessions({{"select"}}, {DocB, DocZero}))

NextView ==
    \/ PointerEvents({P0}, {S0, S1, S2}, {TBack, TWall}, ShortPolyPts)
    \/ DocumentEvents
    \/ ZoomIn
    \/ ZoomOut
    \/ ResetView

SpecView == InitView /\ [][NextView]_vars

\* the select tool over the elements of the drawings, the deeply nested one
\* included
InitHit == InitWith(Sessions({{"select"}}, {DefaultBounds, DocB}))

NextHit ==
    \/ PointerEvents({P0}, {S0, S2}, LiveTargets, ShortPolyPts)
    \/ DesignEvents({"planA", "planDeep"})

SpecHit == InitHit /\ [][NextHit]_vars

\* the inspector over the elements of two plans, and a host that also
\* delivers a design without markup
InitEdit == InitWith(Sessions({{"select"}}, {DefaultBounds, DocB}))

NextEdit ==
    \/ PointerEvents({P0}, {S0}, LiveTargets, ShortPolyPts)
    \/ DesignEvents({"planA", "planB", NoContent})
    \/ InspectorEvents({"wall-1", "col-1"}, {"black", "red"})

SpecEdit == InitEdit /\ [][NextEdit]_vars

\* the inspector over the elements of a plan, with Apply pressed on the form
\* as the panel filled it and after an edit of the stroke
InitApply == InitWith(Sessions({{"select"}}, {DocB}))

NextApply ==
    \/ PointerEvents({P0}, {S0}, LiveTargets, ShortPolyPts)
    \/ DesignEvents({"planA"})
    \/ ApplyUntouched
    \/ InspectorEvents({"wall-1", "col-1"}, {"red"})

SpecApply == InitApply /\ [][NextApply]_vars

\* the chat, the location card and the audit button, with the service
\* answering or failing each call at any time
InitGenerate == InitWith(Sessions({{"select"}}, {DocB}))

NextGenerate ==
    \/ \E input \in ChatInputs : ChatSubmit(input)
    \/ ConfirmLocation
    \/ RunAudit
    \/ \E g \in 1..MaxGenerations, vb \in docs : GenerationResponds(g, vb, "planA")
    \/ \E g \in 1..MaxGenerations : GenerationFails(g)
    \/ DocumentReset

SpecGenerate == InitGenerate /\ [][NextGenerate]_vars

\* the detail form and the detail modal, with the service answering or
\* failing each call at any time
InitModal == InitWith(Sessions({{"detail"}}, {}))

NextModal ==
    \/ \E t \in ToolType : ClickTool(t)
    \/ DetailEvents({TextId, TextPadded})
    \/ CloseDetail
    \/ \E d \in 1..MaxRequests, ok \in BOOLEAN : DetailSettles(d, ok)

SpecModal == InitModal /\ [][NextModal]_vars

\* the detail form
InitDetail == InitOver({{"detail", "measure"}})

NextDetail ==
    \/ NextOver({P0, P5}, ShortPolyPts)
    \/ DetailEvents({TextEmpty, TextBlank, TextId, TextPadded})

SpecDetail == InitDetail /\ [][NextDetail]_vars

\* the keyboard shortcuts over the rectangles of a session, and the end of
\* the canvas
InitKeys == InitOver({{"draw_rect"}})

NextKeys ==
    \/ NextOver({P0, P5}, ShortPolyPts)
    \/ KeyEvents
    \/ Unmount

SpecKeys == InitKeys /\ [][NextKeys]_vars

\* a session in which the user draws arcs, and selects, zooms, pans and fits
InitFrame == InitWith(Sessions({{"select", "draw_arc"}}, {}))

NextFrame ==
    \/ \E t \in ToolType : ClickTool(t)
    \/ MouseDown(ShortPolyPts)
    \/ \E p \in {P0, P5}, s \in {S0, S1} : MouseMove(p, s)
    \/ MouseUp(TBack)
    \/ ZoomIn
    \/ ResetView

SpecFrame == InitFrame /\ [][NextFrame]_vars

\* a session with the rectangle tool, the pointer at three points of which
\* each lies in another direction from the other two
InitRect == InitOver({{"draw_rect"}})

NextRect == NextOver({P0, P2, P7}, ShortPolyPts)

SpecRect == InitRect /\ [][NextRect]_vars

\* a session with the tape measure and the rectangle tool, in which two
\* measurements are held and the host delivers a design
InitTape == InitOver({{"measure", "draw_rect"}})

NextTape ==
    \/ \E t \in ToolType : ClickTool(t)
    \/ MouseDownWith(ShortPolyPts, LongMeasurements)
    \/ \E p \in {P0, P2} : MouseMove(p, S0)
    \/ MouseUp(TBack)
    \/ HistoryEvents
    \/ DocumentEvents

SpecTape == InitTape /\ [][NextTape]_vars

\* a session with the tape measure and the select tool, the clicks made on
\* the elements of the drawing under the layers painted over them
InitOverlay == InitWith(Sessions({{"select", "measure"}}, {}))

NextOverlay ==
    \/ \E t \in ToolType : ClickTool(t)
    \/ MouseDown(ShortPolyPts)
    \/ \E p \in {P0, P2} : MouseMove(p, S0)
    \/ \E i \in DOMAIN dom, layers \in SUBSET OverlayLayers : ReleaseOver(i, layers)

SpecOverlay == InitOverlay /\ [][NextOverlay]_vars

\* sessions that switch between the polyline tool and the arc tool, and
\* between the polyline tool and the rectangle tool
InitVariant == InitWith(Sessions({{"draw_polyline", "draw_arc"}, {"draw_polyline", "draw_rect"}}, {}))

NextVariant ==
    \/ PointerEvents({P0, P5}, {S0}, {TBack}, ShortPolyPts)
    \/ HistoryEvents

SpecVariant == InitVariant /\ [][NextVariant]_vars

---------------------------------------------------------------------------
(* ShapeHistory: the properties of the stacks. *)

RECURSIVE UndoN(_, _)
\* undo, n times
UndoN(st, n) == IF n = 0 THEN st ELSE UndoN(handleUndo(st), n - 1)

RECURSIVE RedoN(_, _)
\* redo, n times
RedoN(st, n) == IF n = 0 THEN st ELSE RedoN(handleRedo(st), n - 1)

\* the shapes of every frame of the three stacks
StoredShapes(us, h, f) ==
    {us[i] : i \in DOMAIN us}
        \cup UNION {{h[k][i] : i \in DOMAIN h[k]} : k \in DOMAIN h}
        \cup UNION {{f[k][i] : i \in DOMAIN f[k]} : k \in DOMAIN f}

\* the step left the three stacks as they were
StacksUnchanged == userShapes' = userShapes /\ history' = history /\ future' = future

\* C1: after a run of n commits (runLen of them, the first made on the shape
\* list runBase), n undos give back the shape list from before the first
\* commit, and n redos after them give back the shape list after the last
C1_UndoRedoRoundTrip ==
    runLen > 0 =>
        LET undone == UndoN(Hist, runLen)
        IN  /\ undone.userShapes = runBase
            /\ RedoN(undone, runLen).userShapes = userShapes

\* a run of two commits made on a shape list that was not empty
C1_Witness == runLen >= 2 /\ Len(runBase) > 0 /\ userShapes # runBase

\* C2: a step that changes the shape list, other than undo, redo and the
\* reset of the document, pushes the shape list from before the change as the
\* newest frame of history and empties future, so that redo then does nothing
C2_CommitPushesAndClears ==
    [][ (userShapes' # userShapes /\ lastEvent' \notin {"undo", "redo", "reset"})
            => /\ history' = Append(history, userShapes)
               /\ future' = <<>>
               /\ handleRedo([userShapes |-> userShapes', history |-> history',
                              future |-> future'])
                      = [userShapes |-> userShapes', history |-> history', future |-> future']
      ]_vars

\* a shape was committed on a non-empty shape list, after an earlier commit
C2_Witness ==
    /\ lastEvent \in {"drag:commit", "arc:commit", "dbl:commit"}
    /\ Len(history) >= 2
    /\ Len(userShapes) >= 2

\* C3: undo on an empty history and redo on an empty future change none of
\* the shape list, history and future
C3_EmptyStackNoOp ==
    [][ /\ (lastEvent' \in {"undo", "undo:empty"} /\ Len(history) = 0) => StacksUnchanged
        /\ (lastEvent' \in {"redo", "redo:empty"} /\ Len(future) = 0) => StacksUnchanged
      ]_vars

\* undo was asked for with nothing left to undo, after everything was undone
C3_Witness == lastEvent = "undo:empty" /\ Len(history) = 0 /\ Len(future) > 0

\* the erase-all button was pressed in this step
ErasePressed == lastEvent' \in {"erase:shapes", "erase:empty"}

\* the step is one commit to the empty list, which one undo takes back
OneCommitToEmpty ==
    /\ history' = Append(history, userShapes)
    /\ future' = <<>>
    /\ userShapes' = <<>>
    /\ handleUndo([userShapes |-> userShapes', history |-> history',
                   future |-> future']).userShapes = userShapes
    /\ handleUndo([userShapes |-> userShapes', history |-> history',
                   future |-> future']).history = history

\* C4 as claimed: erase-all is always one commit to the empty list: it pushes
\* the shape list from before it onto history, clears future and empties the
\* shape list, and one undo restores the shape list
C4_EraseAlwaysCommits == [][ ErasePressed => OneCommitToEmpty ]_vars

\* C4 as amended: erase-all on a non-empty shape list is one commit to the
\* empty list, which one undo takes back; erase-all on an empty shape list
\* (there are only measurements to clear) leaves the shape list, history and
\* future as they are
C4_EraseCommitsWhenNonEmpty ==
    [][ /\ (ErasePressed /\ Len(userShapes) > 0) => OneCommitToEmpty
        /\ (ErasePressed /\ Len(userShapes) = 0) => StacksUnchanged
      ]_vars

\* erase-all was pressed on two shapes: they are the newest frame of history
C4_Witness ==
    /\ lastEvent = "erase:shapes"
    /\ userShapes = <<>>
    /\ Len(history) >= 1
    /\ Len(history[Len(history)]) >= 1
    /\ future = <<>>

---------------------------------------------------------------------------
(* ToolStateMachine: the properties of the gestures. *)

\* A step that changes the active tool: a click in the palette or a detail
\* request that was sent.
SwitchStep == lastEvent' \in {"switch", "submit:sent"}

\* C5: a switch of tool leaves the shape list, history and future as they
\* are, and no shape that was under construction at a switch of tool is ever
\* in a frame of the shape list, of history or of future
C5_AbandonedNeverCommitted ==
    [][ /\ SwitchStep => StacksUnchanged
        /\ \A s \in StoredShapes(userShapes', history', future') : s.id \notin abandoned'
      ]_vars

\* a shape was abandoned at a switch of tool, and another one was committed later
C5_Witness ==
    /\ abandoned # {}
    /\ Len(userShapes) > 0
    /\ lastEvent \in {"drag:commit", "arc:commit", "dbl:commit"}

\* C6 as claimed: right after a switch of the active tool no shape is under
\* construction
C6_SwitchDiscardsShape == [][ SwitchStep => currentShape' = NoShape ]_vars

\* the sequence without its last n elements
DropLast(seq, n) == SubSeq(seq, 1, Len(seq) - n)

\* C7 as claimed: the polyline that a double-click commits has exactly the
\* clicked points as its vertices, in order; the two presses of the
\* double-click itself may or may not be counted among the clicks
C7_PolylineIsClickedPoints ==
    [][ lastEvent' = "dbl:commit"
            => userShapes'[Len(userShapes')].data.points
                   \in {polyClicks, DropLast(polyClicks, 1), DropLast(polyClicks, 2)}
      ]_vars

\* d is the distance of (dx, dy) rounded to a whole number of units
IsRoundedDistance(d, dx, dy) ==
    (2 * d - 1) * (2 * d - 1) <= 4 * (dx * dx + dy * dy)
        /\ 4 * (dx * dx + dy * dy) < (2 * d + 1) * (2 * d + 1)

\* the step is the second click of the tape measure
MeasureSecondClick ==
    /\ ~buttonDown /\ buttonDown'
    /\ activeTool = "measure"
    /\ measureStart # NoPoint
    /\ cursorPos # NoPoint

\* C8: the second click of the tape measure clears measureStart, and appends
\* the measurement from the first point clicked to the second, with their
\* distance rounded to 3 decimals, exactly if the distance is above 0.01;
\* from (0,0) to (3,4) the distance is 5
C8_MeasureSecondClick ==
    [][ MeasureSecondClick =>
            LET dx == cursorPos.x - measureStart.x
                dy == cursorPos.y - measureStart.y
            IN  /\ measureStart' = NoPoint
                /\ IF dx * dx + dy * dy > MeasureThreshold * MeasureThreshold
                   THEN /\ Len(measurements') = Len(measurements) + 1
                        /\ SubSeq(measurements', 1, Len(measurements)) = measurements
                        /\ LET m == measurements'[Len(measurements')]
                           IN  /\ m.p1 = measureStart
                               /\ m.p2 = cursorPos
                               /\ IsRoundedDistance(m.distance, dx, dy)
                               /\ (measureStart = P0 /\ cursorPos = P2) => m.distance = 5000
                   ELSE measurements' = measurements
      ]_vars

\* the measurement from (0,0) to (3,4) was committed, with no start point left
C8_Witness ==
    /\ lastEvent = "measure:commit"
    /\ measureStart = NoPoint
    /\ measurements = <<[p1 |-> P0, p2 |-> P2, distance |-> 5000]>>

\* a rectangle or circle of no extent
Degenerate(s) ==
    \/ s.type = "rect" /\ (s.data.w <= 0 \/ s.data.h <= 0)
    \/ s.type = "circle" /\ s.data.r <= 0

\* C9 as claimed: no rectangle of the shape list has a width or a height of
\* zero, and no circle a radius of zero
C9_NoDegenerateShape == \A i \in DOMAIN userShapes : ~Degenerate(userShapes[i])

\* the step ends a drag of the rectangle or circle tool, and the degenerate
\* shape it made is discarded
DragDiscarded ==
    /\ buttonDown /\ ~buttonDown'
    /\ activeTool \in {"draw_rect", "draw_circle"}
    /\ currentShape # NoShape
    /\ Degenerate(currentShape)
    /\ \A i \in DOMAIN userShapes' : userShapes'[i].id # currentShape.id

\* the step is a second click of the tape measure on the point of the first
ZeroLengthMeasure == MeasureSecondClick /\ cursorPos = measureStart

\* C10: a drag that ends in a discarded degenerate shape, and a measurement
\* of length zero, leave the shape list, history and future as they are
C10_DiscardKeepsStacks ==
    [][ (DragDiscarded \/ ZeroLengthMeasure) => StacksUnchanged ]_vars

\* a degenerate shape was discarded and there is still something to redo
C10_Witness == lastEvent = "drag:discard" /\ Len(future) > 0 /\ currentShape = NoShape

---------------------------------------------------------------------------
(* The document and the viewport: the properties of the reset. *)

\* the viewport shows the bounds of the viewBox, and there is no annotation
\* and no selection
FreshState ==
    /\ viewState = FitView(baseViewBox(viewBox))
    /\ userShapes = <<>>
    /\ history = <<>>
    /\ future = <<>>
    /\ measurements = <<>>
    /\ selectedElement = NoSelection

\* the step delivers a design to the canvas
Delivered == ~effectPending /\ lastEvent' \in {"doc:new", "doc:same"}

\* C11: a delivery that changes the bounds queues the reset, the reset is the
\* next step whatever came before, and it leaves the viewport equal to the
\* new bounds, the shape list, history, future and the measurements empty
\* and the selection absent
C11_ResetOnBoundsChange ==
    [][ /\ viewBox' # viewBox => effectPending'
        /\ effectPending =>
              /\ ~effectPending'
              /\ viewBox' = viewBox
              /\ Len(viewBox) = 4
                    => viewState' = View(viewBox[1], viewBox[2], viewBox[3], viewBox[4])
              /\ userShapes' = <<>> /\ history' = <<>> /\ future' = <<>>
              /\ measurements' = <<>>
              /\ selectedElement' = NoSelection
      ]_vars

\* the reset ran for the design of bounds (4.095, 0, 100, 80) after two
\* shapes were started and with a shape still under construction
C11_Witness ==
    /\ lastEvent = "reset"
    /\ viewBox = DocB
    /\ viewState = View(4095, 0, 100000, 80000)
    /\ nextId = 3
    /\ currentShape # NoShape

\* C12 as claimed: every delivery of a design, one with the bounds of the
\* design before it included, is followed by the reset, or leaves the
\* viewport, the shape history, the measurements and the selection reset
C12_ResetOnEveryDocument == [][ Delivered => (effectPending' \/ FreshState') ]_vars

\* the render that shows a delivered design is committed and can be painted:
\* the reset effect, if it was queued, has not run yet
DocumentCommitted == lastEvent \in {"doc:new", "doc:same"}

\* C13 as claimed: a state that the browser can paint with the new document
\* in it does not show the viewport, shapes, measurements or selection of
\* the document before
C13_NoTornPaint == DocumentCommitted => FreshState

\* four tokens, each a number
WellFormed(tokens) == Len(tokens) = 4 /\ \A i \in 1..4 : tokens[i] # NaN

\* C14 as claimed: a viewBox that is not four numeric tokens gives the
\* default bounds [0, 0, 100, 100]: the reset puts the viewport there
C14_MalformedGivesDefault ==
    [][ (effectPending /\ ~WellFormed(viewBox))
            => viewState' = View(0, 0, 100000, 100000)
      ]_vars

\* C15 as claimed: the viewport always has w > 0 and h > 0
C15_ViewportPositive == Positive(viewState.w) /\ Positive(viewState.h)

---------------------------------------------------------------------------
(* The viewport: zoom, pan, snap, click. *)

Max(a, b) == IF a > b THEN a ELSE b

\* q is the representable number nearest to a * den / num, for num > 0
IsRoundedQuotient(q, a, num, den) ==
    2 * Abs(q * num - a * den) <= num * Ulp(Abs(q))

\* a and b differ by at most two rounding steps at their magnitude
Near(a, b) == Abs(a - b) <= 2 * Ulp(Max(Abs(a), Abs(b)))

\* the step is a press of a zoom button
ZoomStep == lastEvent' \in {"zoom:in", "zoom:out"} /\ viewSteps' = viewSteps + 1

\* the factor of the zoom button pressed in the step
FactorOfStep == IF lastEvent' = "zoom:in" THEN ZoomInFactor ELSE ZoomOutFactor

\* C16: a zoom replaces w by w / factor and h by h / factor, and keeps the
\* centre (x + w/2, y + h/2) of the viewport, to the rounding of the numbers
C16_ZoomAboutCentre ==
    [][ ZoomStep =>
            /\ IsRoundedQuotient(viewState'.w, viewState.w, FactorOfStep[1], FactorOfStep[2])
            /\ IsRoundedQuotient(viewState'.h, viewState.h, FactorOfStep[1], FactorOfStep[2])
            /\ Near(2 * viewState'.x + viewState'.w, 2 * viewState.x + viewState.w)
            /\ Near(2 * viewState'.y + viewState'.h, 2 * viewState.y + viewState.h)
      ]_vars

\* the viewport (0, 0, 100, 100) was zoomed in: w = h = 83.328, centre at (50, 50)
C16_Witness ==
    /\ lastEvent = "zoom:in"
    /\ viewState = View(8336, 8336, 83328, 83328)

\* v and u are the same viewport to within a thousandth of their size
SameView(v, u) ==
    /\ 1000 * Abs(v.w - u.w) <= Abs(u.w) /\ 1000 * Abs(v.h - u.h) <= Abs(u.h)
    /\ 1000 * Abs(v.x - u.x) <= Abs(u.w) /\ 1000 * Abs(v.y - u.y) <= Abs(u.h)

\* C17 as claimed: the zoom-in button followed by the zoom-out button gives
\* back the viewport from before, up to rounding
C17_ZoomRoundTrip ==
    [][ (ZoomStep /\ lastEvent' = "zoom:in")
            => SameView(handleZoom(viewState', ZoomOutFactor), viewState)
      ]_vars

\* the step is a pan of the viewport by the pointer
PanStep == Pans /\ lastEvent' = "pan"

\* the pointer's displacement in the step, in pixels
PanDx == clientPos'.x - lastMousePos.x
PanDy == clientPos'.y - lastMousePos.y

\* the world displacement of the pan, per axis
PanWorldX == FMul(PanDx, FDiv(viewState.w, ContainerW, 1))
PanWorldY == FMul(PanDy, FDiv(viewState.h, ContainerH, 1))

\* the pan subtracts the pixel delta times (w / width, h / height) from the
\* origin and leaves w and h unchanged
PanSubtracts ==
    /\ viewState'.x = FSub(viewState.x, PanWorldX)
    /\ viewState'.y = FSub(viewState.y, PanWorldY)
    /\ viewState'.w = viewState.w
    /\ viewState'.h = viewState.h

\* the viewport after the pan of the step is undone by the opposite pan
PannedBack == pan(viewState', 0 - PanDx, 0 - PanDy, ContainerW, ContainerH)

\* C18 as claimed: a pan subtracts the scaled pixel delta from the origin
\* and leaves w and h unchanged, and the opposite pan after it restores the
\* viewport exactly
C18_PanRoundTripExact == [][ PanStep => (PanSubtracts /\ PannedBack = viewState) ]_vars

\* a is b to within a rounding step of the larger of b and the intermediate c
WithinRounding(a, b, c) == Abs(a - b) <= Ulp(Max(Abs(b), Abs(c)))

\* C18 as amended: a pan subtracts the scaled pixel delta from the origin
\* and leaves w and h unchanged; the opposite pan after it restores the
\* viewport to within a rounding step of the origin and the panned origin,
\* and exactly if the panned origin is computed without rounding
C18_PanRoundTripRounded ==
    [][ PanStep =>
            /\ PanSubtracts
            /\ PannedBack.w = viewState.w /\ PannedBack.h = viewState.h
            /\ WithinRounding(PannedBack.x, viewState.x, viewState'.x)
            /\ WithinRounding(PannedBack.y, viewState.y, viewState'.y)
            /\ (viewState'.x = viewState.x - PanWorldX) => PannedBack.x = viewState.x
            /\ (viewState'.y = viewState.y - PanWorldY) => PannedBack.y = viewState.y
      ]_vars

\* the viewport of the design of bounds (4.095, 0, 100, 80) was panned by
\* (6, 8) pixels, each axis by its own ratio
C18_Witness ==
    /\ lastEvent = "pan"
    /\ viewBox = DocB
    /\ viewSteps = 1
    /\ viewState = View(3495, -640, 100000, 80000)

\* c is a multiple of the grid nearest to a
IsNearestGridLine(c, a) == c % SNAP = 0 /\ 2 * Abs(c - a) <= SNAP

\* C19: a pointer move with snapping enabled sets each axis of the cursor
\* position to the multiple of 0.5 nearest to the world position's, and
\* snapping the result again does not change it; with snapping disabled the
\* cursor position is the world position
C19_SnapNearestIdempotent ==
    [][ ((worldPt' # worldPt \/ cursorPos' # cursorPos) /\ cursorPos' # NoPoint) =>
            IF snapEnabled
            THEN /\ IsNearestGridLine(cursorPos'.x, worldPt'.x)
                 /\ IsNearestGridLine(cursorPos'.y, worldPt'.y)
                 /\ snapPoint(cursorPos', TRUE) = cursorPos'
            ELSE cursorPos' = worldPt'
      ]_vars

\* the world point (0.26, -0.25) was snapped to (0.5, 0)
C19_Witness == snapEnabled /\ worldPt = P6 /\ cursorPos = Pt(500, 0)

\* the step is the release of a gesture of the select tool
SelectRelease == buttonDown /\ ~buttonDown' /\ activeTool = "select" /\ dragStartRef # NoPoint

\* C20 as claimed: a press and release of the select tool less than 5 pixels
\* apart run the hit test and the gesture has not panned the viewport;
\* 5 pixels or more apart, they leave the selection as it was
C20_ClickOrPan ==
    [][ SelectRelease =>
            IF IsClick(dragStartRef, clientPos)
            THEN viewState = downView /\ lastEvent' = "click"
            ELSE selectedElement' = selectedElement
      ]_vars

---------------------------------------------------------------------------
(* SelectionInspector: the properties of the hit test and of the edit. *)

\* the element carries an identifier that the hit test accepts
Identified(el) == IdOf(el) # "" /\ ~SkippedId(IdOf(el))

RECURSIVE NearestIdentified(_, _)
\* the nearest identified element on the ancestor chain of the element at
\* position i of the drawing, the element itself included, and the number
\* of steps up to it; node 0 if there is none
NearestIdentified(drawing, i) ==
    IF i = 0 THEN [node |-> 0, up |-> 0]
    ELSE IF Identified(drawing[i]) THEN [node |-> i, up |-> 0]
    ELSE LET above == NearestIdentified(drawing, drawing[i].parent)
         IN  [node |-> above.node, up |-> above.up + 1]

\* the step is a release that runs the hit test from an element of the drawing
HitTestRuns == lastEvent' = "click" /\ clickedNode' # 0 /\ ~effectPending

\* the clicked element is the background: an svg tag or the grid layer
BackgroundNode(el) == el.tag = "svg" \/ IdOf(el) = "grid-layer"

\* C21: a click on an element whose nearest identified element is 4
\* ancestors above it selects that element, and a click on an element whose
\* nearest identified element is 6 ancestors above it leaves no selection
C21_HitDepthBound ==
    [][ (HitTestRuns /\ ~BackgroundNode(dom[clickedNode'])) =>
            LET near == NearestIdentified(dom, clickedNode')
            IN  /\ (near.node # 0 /\ near.up = 4) =>
                      /\ selectedNode' = near.node
                      /\ selectedElement' # NoSelection
                      /\ selectedElement'.id = IdOf(dom[near.node])
                /\ (near.node # 0 /\ near.up = 6) =>
                      /\ selectedNode' = 0
                      /\ selectedElement' = NoSelection
      ]_vars

\* clicks in the deeply nested plan: the beam selected from the group 4
\* levels below it
C21_Witness ==
    /\ lastEvent = "click"
    /\ dom = PlanDeep
    /\ clickedNode = 5
    /\ selectedNode = 1
    /\ selectedElement # NoSelection
    /\ selectedElement.id = "beam-1"

\* the type the inspector shows for an element: its data-type attribute or,
\* if it has none or an empty one, its tag
DeclaredType(el) ==
    IF "data-type" \in DOMAIN el.attrs /\ el.attrs["data-type"] # "" THEN el.attrs["data-type"]
    ELSE el.tag

\* C22: the hit test selects the nearest element on the ancestor chain of
\* the clicked element (that element included) within 5 levels whose id is
\* not empty and does not start with grid or arrow, with its data-type, or
\* its tag if it declares none, as the type, and with its attributes; a click
\* on the root, on the grid layer, or with no such element within the bound
\* clears the selection
C22_HitTestNearest ==
    [][ lastEvent' = "click" /\ ~effectPending =>
            IF clickedNode' = 0 \/ svgContent = NoContent THEN selectedElement' = NoSelection
            ELSE LET near == NearestIdentified(dom, clickedNode')
                 IN  IF BackgroundNode(dom[clickedNode']) \/ near.node = 0 \/ ~(near.up < HitDepth)
                     THEN selectedElement' = NoSelection /\ selectedNode' = 0
                     ELSE /\ selectedNode' = near.node
                          /\ selectedElement' = [id |-> IdOf(dom[near.node]),
                                                 type |-> DeclaredType(dom[near.node]),
                                                 attributes |-> dom[near.node].attrs]
      ]_vars

\* the wall was selected by a click on the path in it, with its data-type
\* as the type
C22_Witness ==
    /\ lastEvent = "click"
    /\ dom = PlanA
    /\ clickedNode = 2
    /\ selectedElement = [id |-> "wall-1", type |-> "wall", attributes |-> PlanA[1].attrs]

\* the four attributes that the inspector edits
EditedNames == {"id", "stroke", "fill", "stroke-width"}

\* the step is a press of Apply in the inspector
EditStep == lastEvent' = "edit"

\* the selection holds the submitted values as its identifier and attributes
SelectionMirrors ==
    /\ selectedElement' # NoSelection
    /\ selectedElement'.id = submitted'["id"]
    /\ \A name \in EditedNames :
          name \in DOMAIN selectedElement'.attributes
              /\ selectedElement'.attributes[name] = submitted'[name]

\* C23 as claimed: after an edit of a selection whose element is in the
\* live drawing, the id, stroke, fill and stroke-width of that element are
\* the submitted values, and so are the identifier and the attributes of the
\* selection
C23_EditPatchesElement ==
    [][ (EditStep /\ selectedNode # 0) =>
            /\ \A name \in EditedNames : AttrOf(dom'[selectedNode], name) = submitted'[name]
            /\ SelectionMirrors
      ]_vars

\* no element of the live drawing has the identifier of the selection
IdMissing == \A i \in DOMAIN dom : IdOf(dom[i]) # selectedElement.id

EditShows ==
    \E i \in DOMAIN dom' : \A name \in EditedNames : AttrOf(dom'[i], name) = submitted'[name]

---------------------------------------------------------------------------
(* The detail form. *)

\* the form is submitted: SubmitDetail has run
SubmitStep == activeTool = "detail" /\ lastEvent' \in {"submit:sent", "submit:empty"}

\* some character of the text is not white space
NonBlank(text) == \E i \in DOMAIN text : ~IsSpace(text[i])

\* the text between its first and its last character that is not white space
Stripped(text) ==
    LET solid == {i \in DOMAIN text : ~IsSpace(text[i])}
        first == CHOOSE i \in solid : \A j \in solid : i <= j
        last  == CHOOSE i \in solid : \A j \in solid : j <= i
    IN  SubSeq(text, first, last)

\* C25: submitting the detail form with text that is not blank makes exactly
\* one request, with the text stripped of the white space around it, empties
\* the input and selects the select tool; submitting empty or blank text
\* makes no request and leaves the detail tool active
C25_SubmitDetail ==
    [][ SubmitStep =>
            IF NonBlank(detailInput)
            THEN /\ requests' = Append(requests, Stripped(detailInput))
                 /\ detailInput' = <<>>
                 /\ activeTool' = "select"
            ELSE /\ requests' = requests
                 /\ activeTool' = "detail"
      ]_vars

\* two requests were made, the second from a text typed with white space
\* around it
C25_Witness ==
    /\ lastEvent = "submit:sent"
    /\ requests = <<TextId, <<"W", "2">>>>
    /\ detailInput = <<>>
    /\ activeTool = "select"

---------------------------------------------------------------------------
(* The keyboard shortcuts. *)

\* C26: the undo shortcut has exactly the effect of undo on the current shape
\* list and stacks, and the redo shortcut exactly the effect of redo
C26_ShortcutsUndoRedo ==
    [][ /\ lastEvent' = "key:undo" => Hist' = handleUndo(Hist)
        /\ lastEvent' = "key:redo" => Hist' = handleRedo(Hist)
      ]_vars

\* C27: at most one keydown listener of the canvas is attached to window at
\* any time, and none once the canvas is unmounted
C27_OneListener ==
    /\ Len(keyListeners) <= 1
    /\ ~mounted => keyListeners = <<>>

\* the canvas was unmounted after the listener had been replaced twice
\* over: a shape was committed and undone
C27_Witness ==
    /\ ~mounted
    /\ keyListeners = <<>>
    /\ userShapes = <<>>
    /\ Len(future) = 1
    /\ Len(future[1]) = 1

---------------------------------------------------------------------------
(* Viewport: what the view operations leave alone. *)

\* the step is a press of the fit-to-screen button
FitStep == lastEvent' = "fit"

\* C28: a zoom, a pan and a fit change nothing but the viewport: the shape
\* list, history, future, the measurements, the shape under construction and
\* the selection are as before, and a fit makes the viewport exactly the
\* bounds of the document
C28_ViewOnly ==
    [][ /\ (ZoomStep \/ PanStep \/ FitStep) =>
               UNCHANGED <<userShapes, history, future, measurements, currentShape,
                           selectedElement>>
        /\ FitStep => viewState' = FitView(baseViewBox(viewBox))
      ]_vars

---------------------------------------------------------------------------
(* ToolStateMachine: the three clicks of the arc tool. *)

\* the step is a click of the arc tool at a point of the drawing
ArcClick == activeTool = "draw_arc" /\ ~buttonDown /\ buttonDown' /\ cursorPos # NoPoint

\* C30: the clicks of the arc tool take the step counter from 0 to 1, from 1
\* to 2 and from 2 to 0: the first starts an arc with p1, p2 and the control
\* point at the click, the second changes the counter only, the third appends
\* the arc under construction to the shape list, pushes the shape list it
\* replaces on history, and leaves no shape under construction
C30_ArcThreeClicks ==
    [][ ArcClick =>
            /\ drawStep \in {0, 1, 2}
            /\ drawStep = 0 =>
                   /\ drawStep' = 1
                   /\ currentShape'.type = "arc"
                   /\ currentShape'.data = [p1 |-> cursorPos, p2 |-> cursorPos, control |-> cursorPos]
                   /\ StacksUnchanged
            /\ drawStep = 1 =>
                   /\ drawStep' = 2
                   /\ currentShape' = currentShape
                   /\ StacksUnchanged
            /\ drawStep = 2 =>
                   /\ drawStep' = 0
                   /\ currentShape.type = "arc"
                   /\ userShapes' = Append(userShapes, currentShape)
                   /\ history' = Append(history, userShapes)
                   /\ currentShape' = NoShape
      ]_vars

\* the third click has committed an arc from (0,0) that the pointer had bowed
C30_Witness ==
    /\ lastEvent = "arc:commit"
    /\ drawStep = 0
    /\ currentShape = NoShape
    /\ Len(userShapes) = 1
    /\ userShapes[1].type = "arc"
    /\ userShapes[1].data = [p1 |-> P0, p2 |-> P5, control |-> P0]
    /\ history = <<<<>>>>

---------------------------------------------------------------------------
(* ToolStateMachine: the points of an arc. *)

\* the arc tool is active with an arc under construction, before and after
\* the step, and the step is not a click: the step counter stays at n
ArcPreview(n) ==
    /\ activeTool = "draw_arc" /\ activeTool' = "draw_arc"
    /\ currentShape.type = "arc" /\ currentShape'.type = "arc"
    /\ drawStep = n /\ drawStep' = n
    /\ currentShape' # currentShape

\* m is the point half way between a and b
IsMidpoint(m, a, b) == 2 * m.x = a.x + b.x /\ 2 * m.y = a.y + b.y

\* the arc appended to the shape list by the step
CommittedArc == userShapes'[Len(userShapes')]

\* the third click of the arc tool
ArcThirdClick == ArcClick /\ drawStep = 2

\* what the pointer's moves do to the arc under construction, and the two
\* ends of the arc committed: p1 is the point of the first click, p2 the
\* cursor point at the second
ArcPreviewAndEnds ==
    /\ ArcPreview(1) =>
           /\ currentShape'.data.p1 = currentShape.data.p1
           /\ currentShape'.data.p2 = cursorPos'
           /\ IsMidpoint(currentShape'.data.control, currentShape.data.p1, cursorPos')
    /\ ArcPreview(2) =>
           /\ currentShape'.data.p1 = currentShape.data.p1
           /\ currentShape'.data.p2 = currentShape.data.p2
           /\ currentShape'.data.control = cursorPos'
    /\ ArcThirdClick =>
           /\ Len(polyClicks) = 2
           /\ CommittedArc.data.p1 = polyClicks[1]
           /\ CommittedArc.data.p2 = polyClicks[2]

\* C31 as claimed: during step 1 a move of the pointer sets p2 to the cursor
\* point and control to the midpoint of p1 and p2, during step 2 it changes
\* control only, and the arc committed has p1 at the first click, p2 at the
\* cursor point of the second click and control at the cursor point of the
\* third click
C31_ArcPoints ==
    [][ /\ ArcPreviewAndEnds
        /\ ArcThirdClick => CommittedArc.data.control = cursorPos
      ]_vars

\* C31, amended: the same, but the control point of the arc committed is the
\* cursor point of the third click only if the pointer has moved since the
\* second click; if it has not, the cursor is still at p2 and control is the
\* midpoint of p1 and p2
C31_ArcPointsIfMoved ==
    [][ /\ ArcPreviewAndEnds
        /\ ArcThirdClick =>
               \/ CommittedArc.data.control = cursorPos
               \/ /\ cursorPos = CommittedArc.data.p2
                  /\ IsMidpoint(CommittedArc.data.control, CommittedArc.data.p1,
                                 CommittedArc.data.p2)
      ]_vars

\* an arc from (0,0) to (0.5,0) was committed by a third click made where the
\* second was: its control point is half way between its ends
C31_Witness ==
    /\ lastEvent = "arc:commit"
    /\ Len(userShapes) = 1
    /\ userShapes[1].type = "arc"
    /\ userShapes[1].data = [p1 |-> P0, p2 |-> P5, control |-> Pt(250, 0)]
    /\ cursorPos = P5

---------------------------------------------------------------------------
(* ToolStateMachine: the rectangle between the anchor and the pointer. *)

Min(a, b) == IF a < b THEN a ELSE b

\* the rectangle with a corner at the anchor a and the opposite one at p
RectBetween(a, p) ==
    [x |-> Min(a.x, p.x), y |-> Min(a.y, p.y), w |-> Abs(p.x - a.x), h |-> Abs(p.y - a.y),
     startX |-> a.x, startY |-> a.y]

\* the anchor of a rectangle
AnchorOf(s) == Pt(s.data.startX, s.data.startY)

\* the step is a press of the rectangle tool at a point of the drawing
RectPress == activeTool = "draw_rect" /\ ~buttonDown /\ buttonDown' /\ cursorPos # NoPoint

\* the step commits the rectangle under construction
RectCommit == lastEvent' = "drag:commit" /\ currentShape.type = "rect"

\* C32: the rectangle under construction and the rectangle committed have
\* x = min(a.x, p.x), y = min(a.y, p.y), w = |p.x - a.x| and h = |p.y - a.y|
\* for the anchor a, the point of the press, and the cursor point p; no
\* rectangle of the shape list has a negative width or height
C32_RectNormalised ==
    [][ /\ RectPress => currentShape'.data = RectBetween(cursorPos, cursorPos)
        /\ (currentShape.type = "rect" /\ currentShape'.type = "rect"
               /\ currentShape'.id = currentShape.id)
              => AnchorOf(currentShape') = AnchorOf(currentShape)
        /\ (currentShape'.type = "rect" /\ cursorPos' # NoPoint)
              => currentShape'.data = RectBetween(AnchorOf(currentShape'), cursorPos')
        /\ RectCommit =>
              /\ userShapes' = Append(userShapes, currentShape)
              /\ currentShape.data = RectBetween(AnchorOf(currentShape), cursorPos)
        /\ \A i \in DOMAIN userShapes' :
              userShapes'[i].type = "rect" => userShapes'[i].data.w >= 0 /\ userShapes'[i].data.h >= 0
      ]_vars

\* a rectangle dragged from (3,4) up and to the left, to (0,0), was
\* committed, and one dragged from (3.5,-0.5) down and to the left, to (0,0),
\* is under construction
C32_Witness ==
    /\ Len(userShapes) = 1
    /\ userShapes[1].data = [x |-> 0, y |-> 0, w |-> 3000, h |-> 4000,
                             startX |-> 3000, startY |-> 4000]
    /\ currentShape.type = "rect"
    /\ currentShape.data = [x |-> 0, y |-> -500, w |-> 3500, h |-> 500,
                            startX |-> 3500, startY |-> -500]

---------------------------------------------------------------------------
(* The list of measurements. *)

\* the step is an undo or a redo, by button or by shortcut
UndoRedoStep ==
    lastEvent' \in {"undo", "undo:empty", "redo", "redo:empty", "key:undo", "key:redo"}

\* the step is an erase-all or the reset for a new document
BulkClearStep == lastEvent' \in {"erase:shapes", "erase:empty", "reset"}

\* C33: every step leaves the list of measurements as it is, appends one
\* measurement at its end, or, being an erase-all or the reset for a new
\* document, empties it; an undo or a redo leaves it as it is
C33_MeasurementsAppendOnly ==
    [][ /\ \/ measurements' = measurements
           \/ /\ Len(measurements') = Len(measurements) + 1
              /\ SubSeq(measurements', 1, Len(measurements)) = measurements
           \/ measurements' = <<>> /\ BulkClearStep
        /\ UndoRedoStep => measurements' = measurements
      ]_vars

\* two measurements were taken, from (0,0) to (3,4) and back, and a
\* rectangle drawn after them was undone: both are held, in their order
C33_Witness ==
    /\ lastEvent = "undo"
    /\ Len(measurements) = 2
    /\ measurements[1].p1 = P0 /\ measurements[1].p2 = P2
    /\ measurements[2].p1 = P2 /\ measurements[2].p2 = P0
    /\ Len(future) = 1

---------------------------------------------------------------------------
(* OverlayRenderer: the layers and the pointer. *)

\* C34: a click of the select tool at a point where an identified element of
\* the drawing is painted selects that element, whatever is painted over the
\* point: the selection highlight, a measurement or the cursor guides
C34_OverlaysPassClicks ==
    [][ (lastEvent' = "click" /\ aimedNode' # 0 /\ Identified(dom[aimedNode'])) =>
            /\ selectedElement' # NoSelection
            /\ selectedElement'.id = IdOf(dom[aimedNode'])
            /\ selectedNode' = aimedNode'
      ]_vars

---------------------------------------------------------------------------
(* ToolStateMachine: the shape under construction and the active tool. *)

\* the variant of shape that a drawing tool makes
VariantOf(tool) ==
    CASE tool = "draw_rect" -> "rect"
      [] tool = "draw_circle" -> "circle"
      [] tool = "draw_polyline" -> "polyline"
      [] tool = "draw_arc" -> "arc"
      [] OTHER -> "none"

\* C35: while a drawing tool is active, the shape under construction is
\* absent or of the variant of that tool, and no handler has thrown
C35_ShapeOfActiveTool ==
    /\ IsDrawTool(activeTool) => currentShape.type \in {"none", VariantOf(activeTool)}
    /\ lastEvent # "throw"

\* the polyline tool was chosen while another shape was under construction,
\* and a polyline of three vertices is under construction with it
C35_Witness ==
    /\ activeTool = "draw_polyline"
    /\ abandoned # {}
    /\ currentShape.type = "polyline"
    /\ Len(currentShape.data.points) = 3

---------------------------------------------------------------------------
(* ShapeHistory: undo and redo as inverses. *)

\* the frames of the past, the shape list and the frames of the future, in order
Timeline(st) == st.history \o <<st.userShapes>> \o st.future

\* C36: an undo or a redo, by button or by shortcut, leaves the sequence
\* history ++ [userShapes] ++ future as it is; and in every state reached,
\* redo after undo (history not empty) and undo after redo (future not empty)
\* give back the shape list, history and future
C36_UndoRedoInverse ==
    [][ /\ UndoRedoStep => Timeline(Hist') = Timeline(Hist)
        /\ Len(history') > 0 => handleRedo(handleUndo(Hist')) = Hist'
        /\ Len(future') > 0 => handleUndo(handleRedo(Hist')) = Hist'
      ]_vars

\* a redo was made between two frames: both stacks hold a frame after it
C36_Witness ==
    /\ lastEvent \in {"redo", "key:redo"}
    /\ Len(history) > 0
    /\ Len(future) > 0
    /\ Len(userShapes) > 0

---------------------------------------------------------------------------
(* Gestures and the reset for a new document. *)

\* a gesture is in progress: the tape measure has its first point, or a shape
\* is under construction
GestureInProgress(ms, cs) == ms # NoPoint \/ cs # NoShape

\* the step after the reset commits nothing: every gesture takes two steps or
\* more, so what is committed then has a point from before the reset
NothingCommittedOnReset ==
    lastEvent = "reset" => /\ Len(measurements') = 0
                           /\ Len(userShapes') = 0

\* C37: the reset for a new document discards the gesture in progress (the
\* pending first point of the tape measure, the shape under construction and
\* the step of the arc), and the step that follows the reset commits no
\* measurement and no shape
C37_ResetDiscardsGesture ==
    [][ /\ lastEvent' = "reset" => /\ ~GestureInProgress(measureStart', currentShape')
                                    /\ drawStep' = 0
        /\ NothingCommittedOnReset
      ]_vars

---------------------------------------------------------------------------
(* The inspector: Apply without an edit. *)

\* the step is a press of Apply that submits the form as the panel filled it
\* for the selection
UntouchedApplyStep ==
    /\ EditStep
    /\ selectedElement # NoSelection
    /\ submitted' = handleApply(selectedElement.id,
                                inspectorForm(selectedElement).stroke,
                                inspectorForm(selectedElement).fill,
                                inspectorForm(selectedElement).strokeWidth)

\* C40: a press of Apply with the form untouched leaves the id, stroke, fill
\* and stroke-width of every element of the live drawing as they were, an
\* attribute that the element does not have included
C40_UntouchedApplyNoOp ==
    [][ UntouchedApplyStep =>
            \A i \in DOMAIN dom :
                /\ i \in DOMAIN dom'
                /\ \A name \in EditedNames :
                      /\ (name \in DOMAIN dom'[i].attrs) = (name \in DOMAIN dom[i].attrs)
                      /\ AttrOf(dom'[i], name) = AttrOf(dom[i], name)
      ]_vars

---------------------------------------------------------------------------
(* App: one generation at a time, and the detail of the newest request. *)

\* C38: at most one call of the design generation is in flight, the status
\* is not IDLE while a call is in flight, and the current design is never
\* replaced by the response of a call made before the call whose response
\* it holds
C38_OneGenerationInFlight ==
    [][ /\ Cardinality(pending') <= 1
        /\ status' = "IDLE" => pending' = {}
        /\ shownGen' >= shownGen
      ]_vars

\* the call of generateElementDetail that returned in this step
SettledCall == CHOOSE d \in detailPending : d \notin detailPending'

\* C39: when a call of the detail generation returns or fails that is not
\* the newest call made, the detail held, the modal and the loading state
\* stay as they were
C39_NewestDetailOnly ==
    [][ (lastEvent' \in {"detail:response", "detail:failure"} /\ SettledCall # Len(requests))
            => /\ currentDetail' = currentDetail
               /\ detailModalOpen' = detailModalOpen
               /\ isDetailLoading' = isDetailLoading
      ]_vars

=============================================================================
